---- MODULE Spec2Model ----
(***************************************************************************)
(* Model of mkgfd/utils.py: the DictDefault container, the index builders  *)
(* (generate_data_type_map, generate_object_type_map,                      *)
(* generate_predicate_map), predicate_frequency, the equivalence test      *)
(* (isEquivalent / isSameType) and the value caster cast_xsd.              *)
(*                                                                         *)
(* Every Python value is a record with a "kind" field, so that values of   *)
(* different Python types can be compared for equality.  A Python string   *)
(* is the sequence of its Unicode code points.                             *)
(***************************************************************************)
EXTENDS Integers, FiniteSets, Sequences, TLC

VARIABLES pc, g, todo, data_type_map, object_type_map, predicate_map,
          dd, args, ret, ret2

vars == <<pc, g, todo, data_type_map, object_type_map, predicate_map,
          dd, args, ret, ret2>>

(***************************************************************************)
(* Bounds of the model.                                                    *)
(***************************************************************************)
\* largest graph (number of triples) scanned by the index builders
MaxTriples == 3
\* largest graph behind the cache used by isSameType / isEquivalent
MaxCacheTriples == 3

(***************************************************************************)
(* Python / rdflib values.                                                 *)
(***************************************************************************)
None == [kind |-> "None"]
\* an rdflib URIRef / BNode: a str subclass whose text is `id`
URIRef(id) == [kind |-> "URIRef", id |-> id]
BNode(id) == [kind |-> "BNode", id |-> id]
\* an rdflib Literal: lexical form, datatype, language and the Python value
\* rdflib parsed out of the lexical form (None when ill-typed or unknown)
Literal(lex, datatype, language, value) ==
    [kind |-> "Literal", lex |-> lex, datatype |-> datatype,
     language |-> language, value |-> value]
\* a str: its code points
PyStr(chars) == [kind |-> "str", chars |-> chars]
\* an int of any size: sign (1 or -1; 1 for zero) and the decimal digits of
\* its magnitude, most significant first, <<>> for zero
PyInt(sign, digits) == [kind |-> "int", sign |-> sign, digits |-> digits]
\* a float: a finite one is given by the shortest decimal that reads back
\* as it (the digits of repr), as sign * d1.d2d3... * 10^exp10 with d1 # 0
\* and no trailing zero; zero has no digits
PyFloat(sign, digits, exp10) ==
    [kind |-> "float", cls |-> "finite", sign |-> sign, digits |-> digits,
     exp10 |-> exp10]
PyInf(sign) ==
    [kind |-> "float", cls |-> "inf", sign |-> sign, digits |-> <<>>,
     exp10 |-> 0]
PyNaN ==
    [kind |-> "float", cls |-> "nan", sign |-> 1, digits |-> <<>>,
     exp10 |-> 0]
PyBool(b) == [kind |-> "bool", val |-> b]
PyDate(y, m, d) == [kind |-> "date", y |-> y, m |-> m, d |-> d]
\* a timezone(timedelta(...)): the sign and the magnitude of the offset
TimeZone(sign, seconds, microseconds) ==
    [kind |-> "timezone", sign |-> sign, seconds |-> seconds,
     microseconds |-> microseconds]
\* a datetime; tzinfo is None for a naive one
PyDateTime(y, m, d, H, M, S, us, tzinfo) ==
    [kind |-> "datetime", y |-> y, m |-> m, d |-> d, H |-> H, M |-> M,
     S |-> S, us |-> us, tzinfo |-> tzinfo]
PySet(S) == [kind |-> "set", elems |-> S]
\* a string key of a plain dict literal such as {'object-to-type': ...}
DictKey(name) == [kind |-> "key", name |-> name]

\* outcome of a call: a returned value or an escaped exception
Return(v) == [exc |-> "None", val |-> v]
Raise(e) == [exc |-> e, val |-> None]

\* the printable ASCII characters, code points 32 to 126; the grave accent
\* stands under its name
Ascii ==
    <<" ", "!", "\"", "#", "$", "%", "&", "'", "(", ")", "*", "+", ",", "-",
      ".", "/", "0", "1", "2", "3", "4", "5", "6", "7", "8", "9", ":", ";",
      "<", "=", ">", "?", "@", "A", "B", "C", "D", "E", "F", "G", "H", "I",
      "J", "K", "L", "M", "N", "O", "P", "Q", "R", "S", "T", "U", "V", "W",
      "X", "Y", "Z", "[", "\\", "]", "^", "_", "GRAVE ACCENT",
      "a", "b", "c", "d", "e",
      "f", "g", "h", "i", "j", "k", "l", "m", "n", "o", "p", "q", "r", "s",
      "t", "u", "v", "w", "x", "y", "z", "{", "|", "}", "~">>
\* ord(ch) of a printable ASCII character
Ord(ch) == 31 + (CHOOSE i \in DOMAIN Ascii : Ascii[i] = ch)
\* the code points of a text given character by character
Chars(s) == [i \in DOMAIN s |-> Ord(s[i])]

\* the decimal digits of a natural number, <<>> for zero
RECURSIVE DigitsOf(_)
DigitsOf(n) == IF n = 0 THEN <<>> ELSE Append(DigitsOf(n \div 10), n % 10)
\* the int of a small integer
IntOf(n) == IF n < 0 THEN PyInt(-1, DigitsOf(-n)) ELSE PyInt(1, DigitsOf(n))

\* rdflib.namespace
RDF == Chars(<<"h", "t", "t", "p", ":", "/", "/", "w", "w", "w", ".", "w",
               "3", ".", "o", "r", "g", "/", "1", "9", "9", "9", "/", "0",
               "2", "/", "2", "2", "-", "r", "d", "f", "-", "s", "y", "n",
               "t", "a", "x", "-", "n", "s", "#">>)
RDFS == Chars(<<"h", "t", "t", "p", ":", "/", "/", "w", "w", "w", ".", "w",
                "3", ".", "o", "r", "g", "/", "2", "0", "0", "0", "/", "0",
                "1", "/", "r", "d", "f", "-", "s", "c", "h", "e", "m", "a",
                "#">>)
XSD == Chars(<<"h", "t", "t", "p", ":", "/", "/", "w", "w", "w", ".", "w",
               "3", ".", "o", "r", "g", "/", "2", "0", "0", "1", "/", "X",
               "M", "L", "S", "c", "h", "e", "m", "a", "#">>)
RDF_type == URIRef(RDF \o Chars(<<"t", "y", "p", "e">>))
RDFS_Class == URIRef(RDFS \o Chars(<<"C", "l", "a", "s", "s">>))
XSD_string == URIRef(XSD \o Chars(<<"s", "t", "r", "i", "n", "g">>))
XSD_anyType == URIRef(XSD \o Chars(<<"a", "n", "y", "T", "y", "p", "e">>))
XSD_integer == URIRef(XSD \o Chars(<<"i", "n", "t", "e", "g", "e", "r">>))
XSD_double == URIRef(XSD \o Chars(<<"d", "o", "u", "b", "l", "e">>))
XSD_date == URIRef(XSD \o Chars(<<"d", "a", "t", "e">>))
XSD_dateTime == URIRef(XSD \o Chars(<<"d", "a", "t", "e", "T", "i", "m", "e">>))
XSD_gMonthDay ==
    URIRef(XSD \o Chars(<<"g", "M", "o", "n", "t", "h", "D", "a", "y">>))
XSD_boolean == URIRef(XSD \o Chars(<<"b", "o", "o", "l", "e", "a", "n">>))

(***************************************************************************)
(* class DictDefault(dict): a dict whose __missing__ returns the default   *)
(* given at construction.  The default is one shared object.               *)
(***************************************************************************)
DictDefault(default) == [default |-> default, store |-> [k \in {} |-> None]]

Keys(d) == DOMAIN d.store

\* __missing__(self, key): the value returned and the dict afterwards.
\* Mutant: an auto-vivifying map that stores the default under the key.
DictMissingVivify(d, key) ==
    [ret |-> d.default,
     self |-> [d EXCEPT !.store =
                 [k \in Keys(d) \cup {key} |->
                     IF k = key THEN d.default ELSE d.store[k]]]]

DictMissing(d, key) == [ret |-> d.default, self |-> d]

\* d[key]
DictGetItem(d, key) ==
    IF key \in Keys(d)
    THEN [ret |-> d.store[key], self |-> d]
    ELSE DictMissing(d, key)

\* d[key] = value
DictSetItem(d, key, value) ==
    [d EXCEPT !.store =
        [k \in Keys(d) \cup {key} |-> IF k = key THEN value ELSE d.store[k]]]

\* d[key].add(x): the set object that d[key] evaluates to is mutated in
\* place; for an absent key that object is the shared default.
DictSetAdd(d, key, x) ==
    LET got == DictGetItem(d, key)
        d1 == got.self
    IN IF key \in Keys(d1)
       THEN [d1 EXCEPT !.store[key] = PySet(@.elems \cup {x})]
       ELSE [d1 EXCEPT !.default = PySet(@.elems \cup {x})]

(***************************************************************************)
(* The graph: a set of triples [s, p, o] over a small universe.            *)
(***************************************************************************)
EntA == URIRef(Chars(<<"a">>))
EntB == URIRef(Chars(<<"b">>))
EntC == URIRef(Chars(<<"c">>))
NodeN == BNode(Chars(<<"n">>))
Person == URIRef(Chars(<<"P", "e", "r", "s", "o", "n">>))
Student == URIRef(Chars(<<"S", "t", "u", "d", "e", "n", "t">>))
PredP == URIRef(Chars(<<"p">>))
PredQ == URIRef(Chars(<<"q">>))
PredR == URIRef(Chars(<<"r">>))

Lit12 == Literal(Chars(<<"1", "2">>), XSD_integer, None, IntOf(12))
Lit15 == Literal(Chars(<<"1", "5">>), XSD_integer, None, IntOf(15))
LitHiEn ==
    Literal(Chars(<<"h", "i">>), None, PyStr(Chars(<<"e", "n">>)),
            PyStr(Chars(<<"h", "i">>)))
LitPlain ==
    Literal(Chars(<<"a", "b">>), None, None, PyStr(Chars(<<"a", "b">>)))

Triple(s, p, o) == [s |-> s, p |-> p, o |-> o]

PredObj == {<<RDF_type, Person>>, <<RDF_type, Student>>, <<PredP, EntB>>,
            <<PredP, Lit12>>, <<PredP, Lit15>>, <<PredQ, LitHiEn>>,
            <<PredQ, LitPlain>>}

TripleUniverse ==
    {Triple(s, po[1], po[2]) : s \in {EntA, EntB}, po \in PredObj}
    \cup {Triple(NodeN, RDF_type, Person), Triple(NodeN, PredP, Lit12)}

\* g.objects(e, RDF.type)
Objects(graph, e, p) == {t.o : t \in {u \in graph : u.s = e /\ u.p = p}}

(***************************************************************************)
(* generate_data_type_map                                                  *)
(***************************************************************************)
data_type_map_new ==
    [object_to_type |-> DictDefault(None),
     type_to_object |-> DictDefault(PySet({}))]

\* keys of the outer dict literal
OuterKeys == {DictKey("object-to-type"), DictKey("type-to-object")}

\* body of `for o in g.objects()`
DataTypeBody(m, o) ==
    IF o.kind # "Literal"
    THEN m
    ELSE LET dtype ==
               IF o.datatype = None
               THEN (IF o.language # None THEN XSD_string ELSE XSD_anyType)
               ELSE o.datatype
             m1 == IF dtype \notin OuterKeys
                   THEN [m EXCEPT !.type_to_object =
                                     DictSetItem(@, dtype, PySet({}))]
                   ELSE m
             m2 == [m1 EXCEPT !.type_to_object = DictSetAdd(@, dtype, o)]
         IN [m2 EXCEPT !.object_to_type = DictSetItem(@, o, dtype)]

(***************************************************************************)
(* generate_object_type_map                                                *)
(***************************************************************************)
object_type_map_new ==
    [object_to_type |-> DictDefault(PySet({})),
     type_to_object |-> DictDefault(PySet({}))]

\* body of `for ctype in ctypes`.
\* Mutant: the entity's class set is overwritten instead of extended.
ObjectTypeInnerOverwrite(m, e, ctype) ==
    LET m1 == IF ctype \notin Keys(m.type_to_object)
              THEN [m EXCEPT !.type_to_object = DictSetItem(@, ctype, PySet({}))]
              ELSE m
        m3 == [m1 EXCEPT !.type_to_object = DictSetAdd(@, ctype, e)]
    IN [m3 EXCEPT !.object_to_type = DictSetItem(@, e, PySet({ctype}))]

ObjectTypeInner(m, e, ctype) ==
    LET m1 == IF ctype \notin Keys(m.type_to_object)
              THEN [m EXCEPT !.type_to_object = DictSetItem(@, ctype, PySet({}))]
              ELSE m
        m2 == IF e \notin Keys(m1.object_to_type)
              THEN [m1 EXCEPT !.object_to_type = DictSetItem(@, e, PySet({}))]
              ELSE m1
        m3 == [m2 EXCEPT !.type_to_object = DictSetAdd(@, ctype, e)]
    IN [m3 EXCEPT !.object_to_type = DictSetAdd(@, e, ctype)]

RECURSIVE ObjectTypeLoop(_, _, _)
ObjectTypeLoop(m, e, ctypes) ==
    IF ctypes = {}
    THEN m
    ELSE LET ctype == CHOOSE c \in ctypes : TRUE
         IN ObjectTypeLoop(ObjectTypeInner(m, e, ctype), e, ctypes \ {ctype})

\* body of `for e in g.subjects()`
ObjectTypeBody(m, graph, e) ==
    IF e.kind # "URIRef"
    THEN m
    ELSE LET asserted == Objects(graph, e, RDF_type)
             ctypes == IF Cardinality(asserted) <= 0 THEN {RDFS_Class}
                       ELSE asserted
         IN ObjectTypeLoop(m, e, ctypes)

(***************************************************************************)
(* generate_predicate_map                                                  *)
(***************************************************************************)
\* a plain dict: a function without default
PlainDict == [k \in {} |-> None]

PlainSetItem(d, key, value) ==
    [k \in DOMAIN d \cup {key} |-> IF k = key THEN value ELSE d[k]]

\* body of `for lhs, predicate, rhs in g.triples((None, None, None))`.
\* Mutant: the forward entry is overwritten on every triple.
PredicateBodyOverwrite(m, t) ==
    LET m1 == IF t.p \notin DOMAIN m
              THEN PlainSetItem(m, t.p, [forwards |-> DictDefault(PySet({})),
                                         backwards |-> DictDefault(PySet({}))])
              ELSE m
        m2 == [m1 EXCEPT ![t.p].forwards = DictSetItem(@, t.s, PySet({t.o}))]
    IN IF t.o \notin Keys(m2[t.p].backwards)
       THEN [m2 EXCEPT ![t.p].backwards = DictSetItem(@, t.o, PySet({t.s}))]
       ELSE [m2 EXCEPT ![t.p].backwards = DictSetAdd(@, t.o, t.s)]

PredicateBody(m, t) ==
    LET m1 == IF t.p \notin DOMAIN m
              THEN PlainSetItem(m, t.p, [forwards |-> DictDefault(PySet({})),
                                         backwards |-> DictDefault(PySet({}))])
              ELSE m
        m2 == IF t.s \notin Keys(m1[t.p].forwards)
              THEN [m1 EXCEPT ![t.p].forwards = DictSetItem(@, t.s, PySet({t.o}))]
              ELSE [m1 EXCEPT ![t.p].forwards = DictSetAdd(@, t.s, t.o)]
    IN IF t.o \notin Keys(m2[t.p].backwards)
       THEN [m2 EXCEPT ![t.p].backwards = DictSetItem(@, t.o, PySet({t.s}))]
       ELSE [m2 EXCEPT ![t.p].backwards = DictSetAdd(@, t.o, t.s)]

(***************************************************************************)
(* predicate_frequency                                                     *)
(***************************************************************************)
Assertion(lhs, predicate, rhs) == [lhs |-> lhs, predicate |-> predicate, rhs |-> rhs]

\* predicate_map is a plain dict: an absent predicate raises KeyError
predicate_frequency(pmap, assertion, assertion_domain) ==
    IF assertion.predicate \notin DOMAIN pmap
    THEN Raise("KeyError")
    ELSE Return(IntOf(Cardinality(assertion_domain
                                  \cap Keys(pmap[assertion.predicate].forwards))))

(***************************************************************************)
(* mkgfd.structures: the type variables.  A variable carries one attribute *)
(* `type`; ObjectTypeVariable, DataTypeVariable and MultiModalNode are the *)
(* three variants of TypeVariable.                                         *)
(***************************************************************************)
ObjectTypeVariable(type) == [kind |-> "ObjectTypeVariable", type |-> type]
DataTypeVariable(type) == [kind |-> "DataTypeVariable", type |-> type]
MultiModalNode(type) == [kind |-> "MultiModalNode", type |-> type]

TypeVariableKinds == {"ObjectTypeVariable", "DataTypeVariable", "MultiModalNode"}

\* isinstance(x, cls)
IsInstance(x, cls) ==
    IF cls = "TypeVariable" THEN x.kind \in TypeVariableKinds ELSE x.kind = cls

Cache(otm, dtm) == [object_type_map |-> otm, data_type_map |-> dtm]

(***************************************************************************)
(* isSameType                                                              *)
(***************************************************************************)
\* Mutant: the datatype branch no longer compares the recorded datatype.
isSameTypeAnyDatatype(resourceA, resourceB, cache) ==
    \/ /\ IsInstance(resourceA, "ObjectTypeVariable")
       /\ resourceB.kind = "URIRef"
       /\ resourceB \in Keys(cache.object_type_map.object_to_type)
       /\ \E ctype \in DictGetItem(cache.object_type_map.object_to_type,
                                   resourceB).ret.elems :
              ctype = resourceA.type
    \/ /\ \/ IsInstance(resourceA, "DataTypeVariable")
          \/ IsInstance(resourceA, "MultiModalNode")
       /\ resourceB.kind = "Literal"
       /\ resourceB \in Keys(cache.data_type_map.object_to_type)

isSameType(resourceA, resourceB, cache) ==
    \/ /\ IsInstance(resourceA, "ObjectTypeVariable")
       /\ resourceB.kind = "URIRef"
       /\ resourceB \in Keys(cache.object_type_map.object_to_type)
       /\ \E ctype \in DictGetItem(cache.object_type_map.object_to_type,
                                   resourceB).ret.elems :
              ctype = resourceA.type
    \/ /\ \/ IsInstance(resourceA, "DataTypeVariable")
          \/ IsInstance(resourceA, "MultiModalNode")
       /\ resourceB.kind = "Literal"
       /\ resourceB \in Keys(cache.data_type_map.object_to_type)
       /\ resourceA.type = DictGetItem(cache.data_type_map.object_to_type,
                                       resourceB).ret

(***************************************************************************)
(* isEquivalent                                                            *)
(***************************************************************************)
\* Mutant: the predicates are not compared.
isEquivalentAnyPredicate(assertionA, assertionB, cache) ==
    IF ~ (/\ IsInstance(assertionA.lhs, "ObjectTypeVariable")
          /\ IsInstance(assertionB.lhs, "ObjectTypeVariable")
          /\ assertionA.lhs.type = assertionB.lhs.type)
    THEN FALSE
    ELSE \/ assertionA.rhs = assertionB.rhs
         \/ /\ IsInstance(assertionA.rhs, "TypeVariable")
            /\ IsInstance(assertionB.rhs, "TypeVariable")
            /\ assertionA.rhs.type = assertionB.rhs.type
         \/ isSameType(assertionA.rhs, assertionB.rhs, cache)
         \/ isSameType(assertionB.rhs, assertionA.rhs, cache)

isEquivalent(assertionA, assertionB, cache) ==
    IF \/ ~ (/\ IsInstance(assertionA.lhs, "ObjectTypeVariable")
             /\ IsInstance(assertionB.lhs, "ObjectTypeVariable")
             /\ assertionA.lhs.type = assertionB.lhs.type)
       \/ assertionA.predicate # assertionB.predicate
    THEN FALSE
    ELSE \/ assertionA.rhs = assertionB.rhs
         \/ /\ IsInstance(assertionA.rhs, "TypeVariable")
            /\ IsInstance(assertionB.rhs, "TypeVariable")
            /\ assertionA.rhs.type = assertionB.rhs.type
         \/ isSameType(assertionA.rhs, assertionB.rhs, cache)
         \/ isSameType(assertionB.rhs, assertionA.rhs, cache)

(***************************************************************************)
(* The index build: the three generators run one after the other over the  *)
(* graph g; each loop visits the triples in an arbitrary order.            *)
(***************************************************************************)
Graphs(universe, n) == {s \in SUBSET universe : Cardinality(s) <= n}

NoCall == <<>>

InitBuild(graphs) ==
    /\ g \in graphs
    /\ todo = g
    /\ pc = "generate_data_type_map"
    /\ data_type_map = data_type_map_new
    /\ object_type_map = object_type_map_new
    /\ predicate_map = PlainDict
    /\ dd = None
    /\ args = NoCall
    /\ ret = None
    /\ ret2 = None

\* one iteration of `for o in g.objects()`
generate_data_type_map_loop ==
    /\ pc = "generate_data_type_map"
    /\ \E t \in todo :
          /\ data_type_map' = DataTypeBody(data_type_map, t.o)
          /\ todo' = todo \ {t}
    /\ UNCHANGED <<pc, g, object_type_map, predicate_map, dd, args, ret, ret2>>

generate_data_type_map_return ==
    /\ pc = "generate_data_type_map"
    /\ todo = {}
    /\ pc' = "generate_object_type_map"
    /\ todo' = g
    /\ UNCHANGED <<g, data_type_map, object_type_map, predicate_map,
                   dd, args, ret, ret2>>

\* one iteration of `for e in g.subjects()`
generate_object_type_map_loop ==
    /\ pc = "generate_object_type_map"
    /\ \E t \in todo :
          /\ object_type_map' = ObjectTypeBody(object_type_map, g, t.s)
          /\ todo' = todo \ {t}
    /\ UNCHANGED <<pc, g, data_type_map, predicate_map, dd, args, ret, ret2>>

generate_object_type_map_return ==
    /\ pc = "generate_object_type_map"
    /\ todo = {}
    /\ pc' = "generate_predicate_map"
    /\ todo' = g
    /\ UNCHANGED <<g, data_type_map, object_type_map, predicate_map,
                   dd, args, ret, ret2>>

\* one iteration of `for lhs, predicate, rhs in g.triples(...)`
generate_predicate_map_loop ==
    /\ pc = "generate_predicate_map"
    /\ \E t \in todo :
          /\ predicate_map' = PredicateBody(predicate_map, t)
          /\ todo' = todo \ {t}
    /\ UNCHANGED <<pc, g, data_type_map, object_type_map, dd, args, ret, ret2>>

generate_predicate_map_return ==
    /\ pc = "generate_predicate_map"
    /\ todo = {}
    /\ pc' = "built"
    /\ UNCHANGED <<g, todo, data_type_map, object_type_map, predicate_map,
                   dd, args, ret, ret2>>

Build ==
    \/ generate_data_type_map_loop
    \/ generate_data_type_map_return
    \/ generate_object_type_map_loop
    \/ generate_object_type_map_return
    \/ generate_predicate_map_loop
    \/ generate_predicate_map_return

(***************************************************************************)
(* Queries against the built indices.                                      *)
(***************************************************************************)
DomainEntities == {EntA, EntB, EntC}
QueryPredicates == {PredP, PredQ, PredR}

call_predicate_frequency ==
    /\ pc = "built"
    /\ \E p \in QueryPredicates, dom \in SUBSET DomainEntities :
          LET assertion == Assertion(ObjectTypeVariable(Person), p,
                                     ObjectTypeVariable(Person))
          IN /\ args' = <<assertion, dom>>
             /\ ret' = predicate_frequency(predicate_map, assertion, dom)
    /\ pc' = "predicate_frequency"
    /\ UNCHANGED <<g, todo, data_type_map, object_type_map, predicate_map,
                   dd, ret2>>

Init == InitBuild(Graphs(TripleUniverse, MaxTriples))

Next == Build \/ call_predicate_frequency

Spec == Init /\ [][Next]_vars

\* the graphs behind the cache of the equivalence test
CacheTripleUniverse ==
    {Triple(EntA, RDF_type, Person), Triple(EntA, RDF_type, Student),
     Triple(EntB, RDF_type, Student), Triple(EntB, PredP, Lit12),
     Triple(EntB, PredQ, LitHiEn), Triple(EntA, PredQ, LitPlain),
     Triple(EntA, PredP, EntB), Triple(NodeN, RDF_type, Person)}

ResourcesA ==
    {ObjectTypeVariable(Person), ObjectTypeVariable(Student),
     ObjectTypeVariable(RDFS_Class), DataTypeVariable(XSD_integer),
     DataTypeVariable(XSD_string), MultiModalNode(XSD_integer),
     MultiModalNode(XSD_anyType), EntA, Lit12}

ResourcesB ==
    {EntA, EntB, EntC, NodeN, Lit12, Lit15, LitHiEn, LitPlain,
     ObjectTypeVariable(Person)}

call_isSameType ==
    /\ pc = "built"
    /\ \E resourceA \in ResourcesA, resourceB \in ResourcesB :
          /\ args' = <<resourceA, resourceB>>
          /\ ret' = Return(PyBool(isSameType(resourceA, resourceB,
                                   Cache(object_type_map, data_type_map))))
    /\ pc' = "isSameType"
    /\ UNCHANGED <<g, todo, data_type_map, object_type_map, predicate_map,
                   dd, ret2>>

Lhs == {ObjectTypeVariable(Person), ObjectTypeVariable(Student), EntA}
Rhs == {ObjectTypeVariable(Person), ObjectTypeVariable(RDFS_Class),
        DataTypeVariable(XSD_integer), MultiModalNode(XSD_integer),
        EntA, EntB, Lit12, LitHiEn}
Assertions ==
    {Assertion(l, p, r) : l \in Lhs, p \in {PredP, PredQ}, r \in Rhs}

call_isEquivalent ==
    /\ pc = "built"
    /\ \E assertionA \in Assertions, assertionB \in Assertions :
          /\ args' = <<assertionA, assertionB>>
          /\ ret' = Return(PyBool(isEquivalent(assertionA, assertionB,
                                   Cache(object_type_map, data_type_map))))
    /\ pc' = "isEquivalent"
    /\ UNCHANGED <<g, todo, data_type_map, object_type_map, predicate_map,
                   dd, ret2>>

InitEquiv == InitBuild(Graphs(CacheTripleUniverse, MaxCacheTriples))

NextEquiv == Build \/ call_isSameType \/ call_isEquivalent

SpecEquiv == InitEquiv /\ [][NextEquiv]_vars

(***************************************************************************)
(* Sequences and sets of naturals.                                         *)
(***************************************************************************)
Min(S) == CHOOSE x \in S : \A y \in S : x <= y
Max(S) == - Min({- x : x \in S})
Zeros(n) == [i \in 1..n |-> 0]

\* the concatenation of a sequence of sequences
RECURSIVE ConcatRange(_, _, _)
ConcatRange(ss, lo, hi) ==
    IF lo > hi THEN <<>>
    ELSE IF lo = hi THEN ss[lo]
    ELSE LET mid == (lo + hi) \div 2
         IN ConcatRange(ss, lo, mid) \o ConcatRange(ss, mid + 1, hi)
Concat(ss) == ConcatRange(ss, 1, Len(ss))

\* f[lo] + ... + f[hi]
RECURSIVE SumRange(_, _, _)
SumRange(f, lo, hi) ==
    IF lo > hi THEN 0
    ELSE IF lo = hi THEN f[lo]
    ELSE LET mid == (lo + hi) \div 2
         IN SumRange(f, lo, mid) + SumRange(f, mid + 1, hi)

StripLeadingZeros(d) ==
    LET nz == {i \in DOMAIN d : d[i] # 0}
    IN IF nz = {} THEN <<>> ELSE SubSeq(d, Min(nz), Len(d))
StripTrailingZeros(d) ==
    LET nz == {i \in DOMAIN d : d[i] # 0}
    IN IF nz = {} THEN <<>> ELSE SubSeq(d, 1, Max(nz))

\* the value of a short sequence of decimal digits
RECURSIVE NatOf(_)
NatOf(d) ==
    IF d = <<>> THEN 0 ELSE 10 * NatOf(SubSeq(d, 1, Len(d) - 1)) + d[Len(d)]

\* the decimal digits of n, zero-padded to width w
Pad(n, w) == Zeros(w - Len(DigitsOf(n))) \o DigitsOf(n)
\* the characters of a sequence of decimal digits
DigitChars(d) == [i \in DOMAIN d |-> 48 + d[i]]

(***************************************************************************)
(* The Unicode character database behind str.strip(), str.lower() and      *)
(* float(): the code points with the White_Space property or a whitespace  *)
(* bidirectional type, the zero of every run of decimal digits (category   *)
(* Nd), the simple lower-case mappings as runs <<first, last, step,        *)
(* offset>>, the cased code points that are not case-ignorable and the     *)
(* case-ignorable code points as ranges <<first, last>>.                   *)
(***************************************************************************)
Whitespace ==
    {9, 10, 11, 12, 13, 28, 29, 30, 31, 32, 133, 160, 5760, 8192, 8193, 8194,
     8195, 8196, 8197, 8198, 8199, 8200, 8201, 8202, 8232, 8233, 8239, 8287,
     12288}

DecimalZeros ==
    {48, 1632, 1776, 1984, 2406, 2534, 2662, 2790, 2918, 3046, 3174, 3302,
     3430, 3558, 3664, 3792, 3872, 4160, 4240, 6112, 6160, 6470, 6608, 6784,
     6800, 6992, 7088, 7232, 7248, 42528, 43216, 43264, 43472, 43504, 43600,
     44016, 65296, 66720, 68912, 69734, 69872, 69942, 70096, 70384, 70736,
     70864, 71248, 71360, 71472, 71904, 72016, 72784, 73040, 73120, 92768,
     92864, 93008, 120782, 120792, 120802, 120812, 120822, 123200, 123632,
     125264, 130032}

LowerRuns ==
    <<<<65, 90, 1, 32>>, <<192, 214, 1, 32>>, <<216, 222, 1, 32>>,
      <<256, 302, 2, 1>>, <<306, 310, 2, 1>>, <<313, 327, 2, 1>>,
      <<330, 374, 2, 1>>, <<376, 376, 1, -121>>, <<377, 381, 2, 1>>,
      <<385, 385, 1, 210>>, <<386, 388, 2, 1>>, <<390, 390, 1, 206>>,
      <<391, 391, 1, 1>>, <<393, 394, 1, 205>>, <<395, 395, 1, 1>>,
      <<398, 398, 1, 79>>, <<399, 399, 1, 202>>, <<400, 400, 1, 203>>,
      <<401, 401, 1, 1>>, <<403, 403, 1, 205>>, <<404, 404, 1, 207>>,
      <<406, 406, 1, 211>>, <<407, 407, 1, 209>>, <<408, 408, 1, 1>>,
      <<412, 412, 1, 211>>, <<413, 413, 1, 213>>, <<415, 415, 1, 214>>,
      <<416, 420, 2, 1>>, <<422, 422, 1, 218>>, <<423, 423, 1, 1>>,
      <<425, 425, 1, 218>>, <<428, 428, 1, 1>>, <<430, 430, 1, 218>>,
      <<431, 431, 1, 1>>, <<433, 434, 1, 217>>, <<435, 437, 2, 1>>,
      <<439, 439, 1, 219>>, <<440, 440, 1, 1>>, <<444, 444, 1, 1>>,
      <<452, 452, 1, 2>>, <<453, 453, 1, 1>>, <<455, 455, 1, 2>>,
      <<456, 456, 1, 1>>, <<458, 458, 1, 2>>, <<459, 475, 2, 1>>,
      <<478, 494, 2, 1>>, <<497, 497, 1, 2>>, <<498, 500, 2, 1>>,
      <<502, 502, 1, -97>>, <<503, 503, 1, -56>>, <<504, 542, 2, 1>>,
      <<544, 544, 1, -130>>, <<546, 562, 2, 1>>, <<570, 570, 1, 10795>>,
      <<571, 571, 1, 1>>, <<573, 573, 1, -163>>, <<574, 574, 1, 10792>>,
      <<577, 577, 1, 1>>, <<579, 579, 1, -195>>, <<580, 580, 1, 69>>,
      <<581, 581, 1, 71>>, <<582, 590, 2, 1>>, <<880, 882, 2, 1>>,
      <<886, 886, 1, 1>>, <<895, 895, 1, 116>>, <<902, 902, 1, 38>>,
      <<904, 906, 1, 37>>, <<908, 908, 1, 64>>, <<910, 911, 1, 63>>,
      <<913, 929, 1, 32>>, <<931, 939, 1, 32>>, <<975, 975, 1, 8>>,
      <<984, 1006, 2, 1>>, <<1012, 1012, 1, -60>>, <<1015, 1015, 1, 1>>,
      <<1017, 1017, 1, -7>>, <<1018, 1018, 1, 1>>, <<1021, 1023, 1, -130>>,
      <<1024, 1039, 1, 80>>, <<1040, 1071, 1, 32>>, <<1120, 1152, 2, 1>>,
      <<1162, 1214, 2, 1>>, <<1216, 1216, 1, 15>>, <<1217, 1229, 2, 1>>,
      <<1232, 1326, 2, 1>>, <<1329, 1366, 1, 48>>, <<4256, 4293, 1, 7264>>,
      <<4295, 4295, 1, 7264>>, <<4301, 4301, 1, 7264>>,
      <<5024, 5103, 1, 38864>>, <<5104, 5109, 1, 8>>,
      <<7312, 7354, 1, -3008>>, <<7357, 7359, 1, -3008>>,
      <<7680, 7828, 2, 1>>, <<7838, 7838, 1, -7615>>, <<7840, 7934, 2, 1>>,
      <<7944, 7951, 1, -8>>, <<7960, 7965, 1, -8>>, <<7976, 7983, 1, -8>>,
      <<7992, 7999, 1, -8>>, <<8008, 8013, 1, -8>>, <<8025, 8031, 2, -8>>,
      <<8040, 8047, 1, -8>>, <<8072, 8079, 1, -8>>, <<8088, 8095, 1, -8>>,
      <<8104, 8111, 1, -8>>, <<8120, 8121, 1, -8>>, <<8122, 8123, 1, -74>>,
      <<8124, 8124, 1, -9>>, <<8136, 8139, 1, -86>>, <<8140, 8140, 1, -9>>,
      <<8152, 8153, 1, -8>>, <<8154, 8155, 1, -100>>, <<8168, 8169, 1, -8>>,
      <<8170, 8171, 1, -112>>, <<8172, 8172, 1, -7>>, <<8184, 8185, 1, -128>>,
      <<8186, 8187, 1, -126>>, <<8188, 8188, 1, -9>>,
      <<8486, 8486, 1, -7517>>, <<8490, 8490, 1, -8383>>,
      <<8491, 8491, 1, -8262>>, <<8498, 8498, 1, 28>>, <<8544, 8559, 1, 16>>,
      <<8579, 8579, 1, 1>>, <<9398, 9423, 1, 26>>, <<11264, 11311, 1, 48>>,
      <<11360, 11360, 1, 1>>, <<11362, 11362, 1, -10743>>,
      <<11363, 11363, 1, -3814>>, <<11364, 11364, 1, -10727>>,
      <<11367, 11371, 2, 1>>, <<11373, 11373, 1, -10780>>,
      <<11374, 11374, 1, -10749>>, <<11375, 11375, 1, -10783>>,
      <<11376, 11376, 1, -10782>>, <<11378, 11378, 1, 1>>,
      <<11381, 11381, 1, 1>>, <<11390, 11391, 1, -10815>>,
      <<11392, 11490, 2, 1>>, <<11499, 11501, 2, 1>>, <<11506, 11506, 1, 1>>,
      <<42560, 42604, 2, 1>>, <<42624, 42650, 2, 1>>, <<42786, 42798, 2, 1>>,
      <<42802, 42862, 2, 1>>, <<42873, 42875, 2, 1>>,
      <<42877, 42877, 1, -35332>>, <<42878, 42886, 2, 1>>,
      <<42891, 42891, 1, 1>>, <<42893, 42893, 1, -42280>>,
      <<42896, 42898, 2, 1>>, <<42902, 42920, 2, 1>>,
      <<42922, 42922, 1, -42308>>, <<42923, 42923, 1, -42319>>,
      <<42924, 42924, 1, -42315>>, <<42925, 42925, 1, -42305>>,
      <<42926, 42926, 1, -42308>>, <<42928, 42928, 1, -42258>>,
      <<42929, 42929, 1, -42282>>, <<42930, 42930, 1, -42261>>,
      <<42931, 42931, 1, 928>>, <<42932, 42946, 2, 1>>,
      <<42948, 42948, 1, -48>>, <<42949, 42949, 1, -42307>>,
      <<42950, 42950, 1, -35384>>, <<42951, 42953, 2, 1>>,
      <<42960, 42960, 1, 1>>, <<42966, 42968, 2, 1>>, <<42997, 42997, 1, 1>>,
      <<65313, 65338, 1, 32>>, <<66560, 66599, 1, 40>>,
      <<66736, 66771, 1, 40>>, <<66928, 66964, 2, 39>>,
      <<66929, 66938, 1, 39>>, <<66940, 66954, 1, 39>>,
      <<66956, 66962, 1, 39>>, <<66964, 66965, 1, 39>>,
      <<68736, 68786, 1, 64>>, <<71840, 71871, 1, 32>>,
      <<93760, 93791, 1, 32>>, <<125184, 125217, 1, 34>>>>

CasedRanges ==
    <<<<65, 90>>, <<97, 122>>, <<170, 170>>, <<181, 181>>, <<186, 186>>,
      <<192, 214>>, <<216, 246>>, <<248, 442>>, <<444, 447>>, <<452, 659>>,
      <<661, 687>>, <<880, 883>>, <<886, 887>>, <<891, 893>>, <<895, 895>>,
      <<902, 902>>, <<904, 906>>, <<908, 908>>, <<910, 929>>, <<931, 1013>>,
      <<1015, 1153>>, <<1162, 1327>>, <<1329, 1366>>, <<1376, 1416>>,
      <<4256, 4293>>, <<4295, 4295>>, <<4301, 4301>>, <<4304, 4346>>,
      <<4349, 4351>>, <<5024, 5109>>, <<5112, 5117>>, <<7296, 7304>>,
      <<7312, 7354>>, <<7357, 7359>>, <<7424, 7467>>, <<7531, 7543>>,
      <<7545, 7578>>, <<7680, 7957>>, <<7960, 7965>>, <<7968, 8005>>,
      <<8008, 8013>>, <<8016, 8023>>, <<8025, 8025>>, <<8027, 8027>>,
      <<8029, 8029>>, <<8031, 8061>>, <<8064, 8116>>, <<8118, 8124>>,
      <<8126, 8126>>, <<8130, 8132>>, <<8134, 8140>>, <<8144, 8147>>,
      <<8150, 8155>>, <<8160, 8172>>, <<8178, 8180>>, <<8182, 8188>>,
      <<8450, 8450>>, <<8455, 8455>>, <<8458, 8467>>, <<8469, 8469>>,
      <<8473, 8477>>, <<8484, 8484>>, <<8486, 8486>>, <<8488, 8488>>,
      <<8490, 8493>>, <<8495, 8500>>, <<8505, 8505>>, <<8508, 8511>>,
      <<8517, 8521>>, <<8526, 8526>>, <<8544, 8575>>, <<8579, 8580>>,
      <<9398, 9449>>, <<11264, 11387>>, <<11390, 11492>>, <<11499, 11502>>,
      <<11506, 11507>>, <<11520, 11557>>, <<11559, 11559>>, <<11565, 11565>>,
      <<42560, 42605>>, <<42624, 42651>>, <<42786, 42863>>, <<42865, 42887>>,
      <<42891, 42894>>, <<42896, 42954>>, <<42960, 42961>>, <<42963, 42963>>,
      <<42965, 42969>>, <<42997, 42998>>, <<43002, 43002>>, <<43824, 43866>>,
      <<43872, 43880>>, <<43888, 43967>>, <<64256, 64262>>, <<64275, 64279>>,
      <<65313, 65338>>, <<65345, 65370>>, <<66560, 66639>>, <<66736, 66771>>,
      <<66776, 66811>>, <<66928, 66938>>, <<66940, 66954>>, <<66956, 66962>>,
      <<66964, 66965>>, <<66967, 66977>>, <<66979, 66993>>, <<66995, 67001>>,
      <<67003, 67004>>, <<68736, 68786>>, <<68800, 68850>>, <<71840, 71903>>,
      <<93760, 93823>>, <<119808, 119892>>, <<119894, 119964>>,
      <<119966, 119967>>, <<119970, 119970>>, <<119973, 119974>>,
      <<119977, 119980>>, <<119982, 119993>>, <<119995, 119995>>,
      <<119997, 120003>>, <<120005, 120069>>, <<120071, 120074>>,
      <<120077, 120084>>, <<120086, 120092>>, <<120094, 120121>>,
      <<120123, 120126>>, <<120128, 120132>>, <<120134, 120134>>,
      <<120138, 120144>>, <<120146, 120485>>, <<120488, 120512>>,
      <<120514, 120538>>, <<120540, 120570>>, <<120572, 120596>>,
      <<120598, 120628>>, <<120630, 120654>>, <<120656, 120686>>,
      <<120688, 120712>>, <<120714, 120744>>, <<120746, 120770>>,
      <<120772, 120779>>, <<122624, 122633>>, <<122635, 122654>>,
      <<125184, 125251>>, <<127280, 127305>>, <<127312, 127337>>,
      <<127344, 127369>>>>

CaseIgnorableRanges ==
    <<<<39, 39>>, <<46, 46>>, <<58, 58>>, <<94, 94>>, <<96, 96>>,
      <<168, 168>>, <<173, 173>>, <<175, 175>>, <<180, 180>>, <<183, 184>>,
      <<688, 879>>, <<884, 885>>, <<890, 890>>, <<900, 901>>, <<903, 903>>,
      <<1155, 1161>>, <<1369, 1369>>, <<1375, 1375>>, <<1425, 1469>>,
      <<1471, 1471>>, <<1473, 1474>>, <<1476, 1477>>, <<1479, 1479>>,
      <<1524, 1524>>, <<1536, 1541>>, <<1552, 1562>>, <<1564, 1564>>,
      <<1600, 1600>>, <<1611, 1631>>, <<1648, 1648>>, <<1750, 1757>>,
      <<1759, 1768>>, <<1770, 1773>>, <<1807, 1807>>, <<1809, 1809>>,
      <<1840, 1866>>, <<1958, 1968>>, <<2027, 2037>>, <<2042, 2042>>,
      <<2045, 2045>>, <<2070, 2093>>, <<2137, 2139>>, <<2184, 2184>>,
      <<2192, 2193>>, <<2200, 2207>>, <<2249, 2306>>, <<2362, 2362>>,
      <<2364, 2364>>, <<2369, 2376>>, <<2381, 2381>>, <<2385, 2391>>,
      <<2402, 2403>>, <<2417, 2417>>, <<2433, 2433>>, <<2492, 2492>>,
      <<2497, 2500>>, <<2509, 2509>>, <<2530, 2531>>, <<2558, 2558>>,
      <<2561, 2562>>, <<2620, 2620>>, <<2625, 2626>>, <<2631, 2632>>,
      <<2635, 2637>>, <<2641, 2641>>, <<2672, 2673>>, <<2677, 2677>>,
      <<2689, 2690>>, <<2748, 2748>>, <<2753, 2757>>, <<2759, 2760>>,
      <<2765, 2765>>, <<2786, 2787>>, <<2810, 2815>>, <<2817, 2817>>,
      <<2876, 2876>>, <<2879, 2879>>, <<2881, 2884>>, <<2893, 2893>>,
      <<2901, 2902>>, <<2914, 2915>>, <<2946, 2946>>, <<3008, 3008>>,
      <<3021, 3021>>, <<3072, 3072>>, <<3076, 3076>>, <<3132, 3132>>,
      <<3134, 3136>>, <<3142, 3144>>, <<3146, 3149>>, <<3157, 3158>>,
      <<3170, 3171>>, <<3201, 3201>>, <<3260, 3260>>, <<3263, 3263>>,
      <<3270, 3270>>, <<3276, 3277>>, <<3298, 3299>>, <<3328, 3329>>,
      <<3387, 3388>>, <<3393, 3396>>, <<3405, 3405>>, <<3426, 3427>>,
      <<3457, 3457>>, <<3530, 3530>>, <<3538, 3540>>, <<3542, 3542>>,
      <<3633, 3633>>, <<3636, 3642>>, <<3654, 3662>>, <<3761, 3761>>,
      <<3764, 3772>>, <<3782, 3782>>, <<3784, 3789>>, <<3864, 3865>>,
      <<3893, 3893>>, <<3895, 3895>>, <<3897, 3897>>, <<3953, 3966>>,
      <<3968, 3972>>, <<3974, 3975>>, <<3981, 3991>>, <<3993, 4028>>,
      <<4038, 4038>>, <<4141, 4144>>, <<4146, 4151>>, <<4153, 4154>>,
      <<4157, 4158>>, <<4184, 4185>>, <<4190, 4192>>, <<4209, 4212>>,
      <<4226, 4226>>, <<4229, 4230>>, <<4237, 4237>>, <<4253, 4253>>,
      <<4348, 4348>>, <<4957, 4959>>, <<5906, 5908>>, <<5938, 5939>>,
      <<5970, 5971>>, <<6002, 6003>>, <<6068, 6069>>, <<6071, 6077>>,
      <<6086, 6086>>, <<6089, 6099>>, <<6103, 6103>>, <<6109, 6109>>,
      <<6155, 6159>>, <<6211, 6211>>, <<6277, 6278>>, <<6313, 6313>>,
      <<6432, 6434>>, <<6439, 6440>>, <<6450, 6450>>, <<6457, 6459>>,
      <<6679, 6680>>, <<6683, 6683>>, <<6742, 6742>>, <<6744, 6750>>,
      <<6752, 6752>>, <<6754, 6754>>, <<6757, 6764>>, <<6771, 6780>>,
      <<6783, 6783>>, <<6823, 6823>>, <<6832, 6862>>, <<6912, 6915>>,
      <<6964, 6964>>, <<6966, 6970>>, <<6972, 6972>>, <<6978, 6978>>,
      <<7019, 7027>>, <<7040, 7041>>, <<7074, 7077>>, <<7080, 7081>>,
      <<7083, 7085>>, <<7142, 7142>>, <<7144, 7145>>, <<7149, 7149>>,
      <<7151, 7153>>, <<7212, 7219>>, <<7222, 7223>>, <<7288, 7293>>,
      <<7376, 7378>>, <<7380, 7392>>, <<7394, 7400>>, <<7405, 7405>>,
      <<7412, 7412>>, <<7416, 7417>>, <<7468, 7530>>, <<7544, 7544>>,
      <<7579, 7679>>, <<8125, 8125>>, <<8127, 8129>>, <<8141, 8143>>,
      <<8157, 8159>>, <<8173, 8175>>, <<8189, 8190>>, <<8203, 8207>>,
      <<8216, 8217>>, <<8228, 8228>>, <<8231, 8231>>, <<8234, 8238>>,
      <<8288, 8292>>, <<8294, 8303>>, <<8305, 8305>>, <<8319, 8319>>,
      <<8336, 8348>>, <<8400, 8432>>, <<11388, 11389>>, <<11503, 11505>>,
      <<11631, 11631>>, <<11647, 11647>>, <<11744, 11775>>, <<11823, 11823>>,
      <<12293, 12293>>, <<12330, 12333>>, <<12337, 12341>>, <<12347, 12347>>,
      <<12441, 12446>>, <<12540, 12542>>, <<40981, 40981>>, <<42232, 42237>>,
      <<42508, 42508>>, <<42607, 42610>>, <<42612, 42621>>, <<42623, 42623>>,
      <<42652, 42655>>, <<42736, 42737>>, <<42752, 42785>>, <<42864, 42864>>,
      <<42888, 42890>>, <<42994, 42996>>, <<43000, 43001>>, <<43010, 43010>>,
      <<43014, 43014>>, <<43019, 43019>>, <<43045, 43046>>, <<43052, 43052>>,
      <<43204, 43205>>, <<43232, 43249>>, <<43263, 43263>>, <<43302, 43309>>,
      <<43335, 43345>>, <<43392, 43394>>, <<43443, 43443>>, <<43446, 43449>>,
      <<43452, 43453>>, <<43471, 43471>>, <<43493, 43494>>, <<43561, 43566>>,
      <<43569, 43570>>, <<43573, 43574>>, <<43587, 43587>>, <<43596, 43596>>,
      <<43632, 43632>>, <<43644, 43644>>, <<43696, 43696>>, <<43698, 43700>>,
      <<43703, 43704>>, <<43710, 43711>>, <<43713, 43713>>, <<43741, 43741>>,
      <<43756, 43757>>, <<43763, 43764>>, <<43766, 43766>>, <<43867, 43871>>,
      <<43881, 43883>>, <<44005, 44005>>, <<44008, 44008>>, <<44013, 44013>>,
      <<64286, 64286>>, <<64434, 64450>>, <<65024, 65039>>, <<65043, 65043>>,
      <<65056, 65071>>, <<65106, 65106>>, <<65109, 65109>>, <<65279, 65279>>,
      <<65287, 65287>>, <<65294, 65294>>, <<65306, 65306>>, <<65342, 65342>>,
      <<65344, 65344>>, <<65392, 65392>>, <<65438, 65439>>, <<65507, 65507>>,
      <<65529, 65531>>, <<66045, 66045>>, <<66272, 66272>>, <<66422, 66426>>,
      <<67456, 67461>>, <<67463, 67504>>, <<67506, 67514>>, <<68097, 68099>>,
      <<68101, 68102>>, <<68108, 68111>>, <<68152, 68154>>, <<68159, 68159>>,
      <<68325, 68326>>, <<68900, 68903>>, <<69291, 69292>>, <<69446, 69456>>,
      <<69506, 69509>>, <<69633, 69633>>, <<69688, 69702>>, <<69744, 69744>>,
      <<69747, 69748>>, <<69759, 69761>>, <<69811, 69814>>, <<69817, 69818>>,
      <<69821, 69821>>, <<69826, 69826>>, <<69837, 69837>>, <<69888, 69890>>,
      <<69927, 69931>>, <<69933, 69940>>, <<70003, 70003>>, <<70016, 70017>>,
      <<70070, 70078>>, <<70089, 70092>>, <<70095, 70095>>, <<70191, 70193>>,
      <<70196, 70196>>, <<70198, 70199>>, <<70206, 70206>>, <<70367, 70367>>,
      <<70371, 70378>>, <<70400, 70401>>, <<70459, 70460>>, <<70464, 70464>>,
      <<70502, 70508>>, <<70512, 70516>>, <<70712, 70719>>, <<70722, 70724>>,
      <<70726, 70726>>, <<70750, 70750>>, <<70835, 70840>>, <<70842, 70842>>,
      <<70847, 70848>>, <<70850, 70851>>, <<71090, 71093>>, <<71100, 71101>>,
      <<71103, 71104>>, <<71132, 71133>>, <<71219, 71226>>, <<71229, 71229>>,
      <<71231, 71232>>, <<71339, 71339>>, <<71341, 71341>>, <<71344, 71349>>,
      <<71351, 71351>>, <<71453, 71455>>, <<71458, 71461>>, <<71463, 71467>>,
      <<71727, 71735>>, <<71737, 71738>>, <<71995, 71996>>, <<71998, 71998>>,
      <<72003, 72003>>, <<72148, 72151>>, <<72154, 72155>>, <<72160, 72160>>,
      <<72193, 72202>>, <<72243, 72248>>, <<72251, 72254>>, <<72263, 72263>>,
      <<72273, 72278>>, <<72281, 72283>>, <<72330, 72342>>, <<72344, 72345>>,
      <<72752, 72758>>, <<72760, 72765>>, <<72767, 72767>>, <<72850, 72871>>,
      <<72874, 72880>>, <<72882, 72883>>, <<72885, 72886>>, <<73009, 73014>>,
      <<73018, 73018>>, <<73020, 73021>>, <<73023, 73029>>, <<73031, 73031>>,
      <<73104, 73105>>, <<73109, 73109>>, <<73111, 73111>>, <<73459, 73460>>,
      <<78896, 78904>>, <<92912, 92916>>, <<92976, 92982>>, <<92992, 92995>>,
      <<94031, 94031>>, <<94095, 94111>>, <<94176, 94177>>, <<94179, 94180>>,
      <<110576, 110579>>, <<110581, 110587>>, <<110589, 110590>>,
      <<113821, 113822>>, <<113824, 113827>>, <<118528, 118573>>,
      <<118576, 118598>>, <<119143, 119145>>, <<119155, 119170>>,
      <<119173, 119179>>, <<119210, 119213>>, <<119362, 119364>>,
      <<121344, 121398>>, <<121403, 121452>>, <<121461, 121461>>,
      <<121476, 121476>>, <<121499, 121503>>, <<121505, 121519>>,
      <<122880, 122886>>, <<122888, 122904>>, <<122907, 122913>>,
      <<122915, 122916>>, <<122918, 122922>>, <<123184, 123197>>,
      <<123566, 123566>>, <<123628, 123631>>, <<125136, 125142>>,
      <<125252, 125259>>, <<127995, 127999>>, <<917505, 917505>>,
      <<917536, 917631>>, <<917760, 917999>>>>

InRanges(c, ranges) ==
    \E i \in DOMAIN ranges : ranges[i][1] <= c /\ c <= ranges[i][2]
IsCaseIgnorable(c) == InRanges(c, CaseIgnorableRanges)
\* for a code point that is not case-ignorable
IsCased(c) == InRanges(c, CasedRanges)

\* str.strip(), str.lstrip(), str.rstrip()
LStrip(s) ==
    LET keep == {i \in DOMAIN s : s[i] \notin Whitespace}
    IN IF keep = {} THEN <<>> ELSE SubSeq(s, Min(keep), Len(s))
RStrip(s) ==
    LET keep == {i \in DOMAIN s : s[i] \notin Whitespace}
    IN IF keep = {} THEN <<>> ELSE SubSeq(s, 1, Max(keep))
Strip(s) == RStrip(LStrip(s))

\* the lower-case form of one code point; U+0130 becomes two code points
InLowerRun(c, r) == r[1] <= c /\ c <= r[2] /\ (c - r[1]) % r[3] = 0
LowerChar(c) ==
    IF c = 304 THEN <<105, 775>>
    ELSE IF \E i \in DOMAIN LowerRuns : InLowerRun(c, LowerRuns[i])
    THEN <<c + LowerRuns[CHOOSE i \in DOMAIN LowerRuns :
                            InLowerRun(c, LowerRuns[i])][4]>>
    ELSE <<c>>

\* a capital sigma at position i is final when a cased letter precedes it
\* and none follows it, case-ignorable code points being skipped
FinalSigma(s, i) ==
    LET before == {j \in 1..(i - 1) : ~ IsCaseIgnorable(s[j])}
        after == {j \in (i + 1)..Len(s) : ~ IsCaseIgnorable(s[j])}
    IN /\ before # {}
       /\ IsCased(s[Max(before)])
       /\ after = {} \/ ~ IsCased(s[Min(after)])

\* str.lower()
Lower(s) ==
    Concat([i \in DOMAIN s |->
              IF s[i] = 931
              THEN (IF FinalSigma(s, i) THEN <<962>> ELSE <<963>>)
              ELSE LowerChar(s[i])])

\* the text of a str or of an instance of a str subclass (rdflib Literal,
\* URIRef, BNode)
IsStr(x) == x.kind \in {"str", "Literal", "URIRef", "BNode"}
Text(x) ==
    CASE x.kind = "str" -> x.chars
      [] x.kind = "Literal" -> x.lex
      [] x.kind \in {"URIRef", "BNode"} -> x.id

\* the code point at index i, 0 past the end
CharAt(s, i) == IF i \in DOMAIN s THEN s[i] ELSE 0

(***************************************************************************)
(* Arbitrary-precision naturals: the limbs of a number in base 1000, least *)
(* significant first, without a leading zero limb; <<>> is zero.           *)
(***************************************************************************)
Limb(a, i) == IF i \in DOMAIN a THEN a[i] ELSE 0

Trim(a) ==
    LET nz == {i \in DOMAIN a : a[i] # 0}
    IN IF nz = {} THEN <<>> ELSE SubSeq(a, 1, Max(nz))

\* from and to the decimal digits, most significant first
LimbsOf(digits) ==
    LET n == Len(digits)
        d(i) == IF i <= n THEN digits[n + 1 - i] ELSE 0
    IN Trim([k \in 1..((n + 2) \div 3) |->
                d(3 * k - 2) + 10 * d(3 * k - 1) + 100 * d(3 * k)])
DigitsOfLimbs(a) ==
    LET n == 3 * Len(a)
    IN StripLeadingZeros(
          [i \in 1..n |->
              LET r == n - i
              IN (a[(r \div 3) + 1] \div (10 ^ (r % 3))) % 10])

\* a + b: limb i receives a carry when the nearest lower limb whose sum is
\* not 999 overflows
BigAdd(a, b) ==
    LET n == IF Len(a) > Len(b) THEN Len(a) ELSE Len(b)
        s == [i \in 1..n |-> Limb(a, i) + Limb(b, i)]
        carry(i) ==
            /\ \E d \in 1..(i - 1) : s[i - d] # 999
            /\ s[i - (CHOOSE d \in 1..(i - 1) :
                         /\ s[i - d] # 999
                         /\ \A k \in 1..(d - 1) : s[i - k] = 999)] >= 1000
    IN Trim([i \in 1..(n + 1) |->
                (Limb(s, i) + (IF carry(i) THEN 1 ELSE 0)) % 1000])

\* a * b: the column sums, split into limbs and added up
BigMul(a, b) ==
    IF a = <<>> \/ b = <<>> THEN <<>>
    ELSE LET n == Len(a) + Len(b)
             col == [k \in 1..n |->
                       LET lo == IF k + 1 - Len(b) > 1 THEN k + 1 - Len(b) ELSE 1
                           hi == IF k < Len(a) THEN k ELSE Len(a)
                       IN SumRange([i \in lo..hi |-> a[i] * b[k + 1 - i]],
                                   lo, hi)]
             part(p) == [k \in 1..(n + 3) |->
                           IF k - p \in 1..n
                           THEN (col[k - p] \div (1000 ^ p)) % 1000
                           ELSE 0]
         IN BigAdd(BigAdd(part(0), part(1)), BigAdd(part(2), part(3)))

\* b ^ k for a base below 1000
RECURSIVE BigPow(_, _)
BigPow(b, k) ==
    IF k = 0 THEN <<1>>
    ELSE LET h == BigPow(b, k \div 2)
         IN BigMul(BigMul(h, h), IF k % 2 = 0 THEN <<1>> ELSE <<b>>)

BigLess(a, b) ==
    IF Len(a) # Len(b) THEN Len(a) < Len(b)
    ELSE \E i \in DOMAIN a :
            /\ a[i] < b[i]
            /\ \A k \in (i + 1)..Len(a) : a[k] = b[k]

\* the remainder of the limbs from i upwards by a small divisor, and the
\* quotient and remainder of the whole
RECURSIVE BigRemFrom(_, _, _)
BigRemFrom(a, d, i) ==
    IF i > Len(a) THEN 0 ELSE (BigRemFrom(a, d, i + 1) * 1000 + a[i]) % d
BigDivSmall(a, d) ==
    [q |-> Trim([i \in DOMAIN a |->
                    (BigRemFrom(a, d, i + 1) * 1000 + a[i]) \div d]),
     r |-> BigRemFrom(a, d, 1)]

(***************************************************************************)
(* IEEE 754 binary64.  A finite non-zero double is m * 2^e with            *)
(* 2^52 <= m < 2^53 and -1074 <= e <= 971, or m < 2^52 and e = -1074.      *)
(***************************************************************************)
DoubleZero == [cls |-> "zero", m |-> <<>>, e |-> 0]
DoubleInf == [cls |-> "inf", m |-> <<>>, e |-> 0]
Double(m, e) == [cls |-> "finite", m |-> m, e |-> e]

\* the double of the mantissa m below or at 2^53 and the exponent e: a
\* mantissa of 2^53 is 2^52 at the next exponent, an exponent above 971
\* is out of range
DoubleOfRounded(m, e) ==
    IF m = <<>> THEN DoubleZero
    ELSE IF e + (IF m = BigPow(2, 53) THEN 1 ELSE 0) > 971 THEN DoubleInf
    ELSE IF m = BigPow(2, 53) THEN Double(BigPow(2, 52), e + 1)
    ELSE Double(m, e)

\* dm.q + dm.r / (2 * half), plus a sticky rest, rounded to the nearest
\* integer, ties to even
RoundHalfEven(dm, half, sticky, e) ==
    DoubleOfRounded(
        IF \/ dm.r > half
           \/ dm.r = half /\ (sticky \/ Limb(dm.q, 1) % 2 = 1)
        THEN BigAdd(dm.q, <<1>>) ELSE dm.q,
        e)

\* q0 * 2^e0, plus a sticky rest, rounded to 53 bits, and to the bits above
\* 2^-1074 for a subnormal: k is the number of bits that go
RoundQuotient(q0, sticky, e0) ==
    LET kmin == IF -1074 - e0 > 1 THEN -1074 - e0 ELSE 1
        k == CHOOSE j \in kmin..(kmin + 13) :
                /\ BigLess(q0, BigPow(2, 53 + j))
                /\ j = kmin \/ ~ BigLess(q0, BigPow(2, 52 + j))
    IN RoundHalfEven(BigDivSmall(q0, 2 ^ k), 2 ^ (k - 1), sticky, e0 + k)

\* the digits Ad times 10^t, times 2^e0, rounded: the integer part is the
\* quotient, a digit behind it that is not zero is the sticky rest
RoundScaled(Ad, t, e0) ==
    RoundQuotient(
        LimbsOf(IF t >= 0 THEN Ad \o Zeros(t)
                ELSE SubSeq(Ad, 1, Len(Ad) + t)),
        /\ t < 0
        /\ \E i \in (Len(Ad) + t + 1)..Len(Ad) : i >= 1 /\ Ad[i] # 0,
        e0)

\* the double nearest to digits * 10^exp, ties to even; the first digit is
\* not zero and the value lies between 10^-325 and 10^309
RoundToDouble(digits, exp) ==
    LET X == Len(digits) - 1 + exp
        \* a lower bound of the binary exponent of the value
        Lmin == IF X >= 0 THEN (X * 3321) \div 1000
                ELSE - (((- X) * 3322 + 999) \div 1000)
        e0 == IF Lmin - 54 > -1076 THEN Lmin - 54 ELSE -1076
    \* value / 2^e0 = A * 10^t
    IN RoundScaled(
          DigitsOfLimbs(BigMul(LimbsOf(digits),
                               IF e0 <= 0 THEN BigPow(2, - e0)
                               ELSE BigPow(5, e0))),
          IF e0 <= 0 THEN exp ELSE exp - e0,
          e0)

\* the double nearest to digits * 10^exp, for any sequence of digits
DecimalToDouble(digits, exp) ==
    LET d == StripTrailingZeros(StripLeadingZeros(digits))
        ex == exp + (Len(digits) - Len(StripTrailingZeros(digits)))
        X == Len(d) - 1 + ex
    IN IF d = <<>> THEN DoubleZero
       ELSE IF X >= 309 THEN DoubleInf
       ELSE IF X <= -325 THEN DoubleZero
       ELSE RoundToDouble(d, ex)

\* the decimal digits after lo when one is added in its last place
Successor(lo) ==
    LET not9 == {i \in DOMAIN lo : lo[i] # 9}
    IN IF not9 = {} THEN <<1>> \o Zeros(Len(lo))
       ELSE [i \in DOMAIN lo |->
                IF i < Max(not9) THEN lo[i]
                ELSE IF i = Max(not9) THEN lo[i] + 1 ELSE 0]

\* repr of a double: the shortest decimal that reads back as the double,
\* the nearest to it among those, as digits d1 d2 ... and the exponent X of
\* d1.d2... * 10^X.  D are the digits of the exact value, X its exponent.
\* With n digits the candidates are the first n digits, lo, and the
\* decimal after them, hi; okLo and okHi tell which of them read back.
RECURSIVE ShortestFrom(_, _, _, _)
ShortestPick(D, X, dbl, n, hi, okLo, okHi) ==
    LET lo == SubSeq(D, 1, n)
        rest == SubSeq(D, n + 1, Len(D))
        restZero == \A i \in 2..Len(rest) : rest[i] = 0
        below == rest[1] < 5
        tie == rest[1] = 5 /\ restZero
    IN IF ~ okLo /\ ~ okHi THEN ShortestFrom(D, X, dbl, n + 1)
       ELSE IF (IF okLo /\ okHi THEN below \/ (tie /\ lo[n] % 2 = 0)
                ELSE okLo)
       THEN [digits |-> StripTrailingZeros(lo), exp10 |-> X]
       ELSE [digits |-> StripTrailingZeros(hi),
             exp10 |-> X + (Len(hi) - n)]
ShortestCandidates(D, X, dbl, n, hi) ==
    ShortestPick(D, X, dbl, n, hi,
                 DecimalToDouble(SubSeq(D, 1, n), X - (n - 1)) = dbl,
                 DecimalToDouble(hi, X + 1 - n) = dbl)
ShortestFrom(D, X, dbl, n) ==
    IF n >= Len(D)
    THEN [digits |-> StripTrailingZeros(D), exp10 |-> X]
    ELSE ShortestCandidates(D, X, dbl, n, Successor(SubSeq(D, 1, n)))

\* the float of a sign and the shortest digits of its double
FloatOfShortest(sign, short) == PyFloat(sign, short.digits, short.exp10)
\* the float of a sign and a double whose exact value has the digits D
FloatOfExact(sign, dbl, D) ==
    FloatOfShortest(
        sign,
        ShortestFrom(D, Len(D) - 1 + (IF dbl.e >= 0 THEN 0 ELSE dbl.e),
                     dbl, 1))
\* the float of a double and a sign
FloatOfDouble(sign, dbl) ==
    IF dbl.cls = "inf" THEN PyInf(sign)
    ELSE IF dbl.cls = "zero" THEN PyFloat(sign, <<>>, 0)
    ELSE FloatOfExact(
            sign, dbl,
            DigitsOfLimbs(BigMul(dbl.m,
                                 IF dbl.e >= 0 THEN BigPow(2, dbl.e)
                                 ELSE BigPow(5, - dbl.e))))

\* the float nearest to sign * digits * 10^exp; a number past the largest
\* double is inf, and an OverflowError where overflow raises
FloatOfRounded(sign, dbl, raises) ==
    IF raises /\ dbl.cls = "inf" THEN Raise("OverflowError")
    ELSE Return(FloatOfDouble(sign, dbl))
FloatOfDecimal(sign, digits, exp, raises) ==
    FloatOfRounded(sign, DecimalToDouble(digits, exp), raises)

(***************************************************************************)
(* float(x)                                                                *)
(***************************************************************************)
IsAsciiDigit(c) == 48 <= c /\ c <= 57

\* what float() reads of a code point: ASCII as it is, any other white
\* space as a space, any other decimal digit as its ASCII digit, the rest
\* as "?"
ToAscii(c) ==
    IF c < 128 THEN c
    ELSE IF c \in Whitespace THEN 32
    ELSE IF \E z \in DecimalZeros : z <= c /\ c <= z + 9
    THEN 48 + c - (CHOOSE z \in DecimalZeros : z <= c /\ c <= z + 9)
    ELSE 63

\* an underscore stands between two digits
UnderscoresOk(s) ==
    \A i \in DOMAIN s :
        s[i] = 95 => /\ i > 1 /\ IsAsciiDigit(s[i - 1])
                     /\ i < Len(s) /\ IsAsciiDigit(s[i + 1])

\* the white space of C: space, \t, \n, \v, \f, \r
CSpace == {9, 10, 11, 12, 13, 32}
CStrip(s) ==
    LET keep == {i \in DOMAIN s : s[i] \notin CSpace}
    IN IF keep = {} THEN <<>> ELSE SubSeq(s, Min(keep), Max(keep))

AsciiLower(s) ==
    [i \in DOMAIN s |-> IF 65 <= s[i] /\ s[i] <= 90 THEN s[i] + 32 ELSE s[i]]

\* the number of ASCII digits of s from index p on
DigitRun(s, p) ==
    LET stop == {i \in p..Len(s) : ~ IsAsciiDigit(s[i])}
    IN (IF stop = {} THEN Len(s) + 1 ELSE Min(stop)) - p

\* the exponent of a float literal: its value, and 1100000000 for one of
\* more than nine digits behind its leading zeros
ExponentOf(d) ==
    LET z == StripLeadingZeros(d)
    IN IF Len(z) > 9 THEN 1100000000 ELSE NatOf(z)

\* what float() makes of a text or an int before it rounds: an exception,
\* a float that needs no rounding, or a sign, decimal digits and an
\* exponent of ten
FloatRaises(e) == [to |-> "raise", exc |-> e]
FloatIs(v) == [to |-> "value", val |-> v]
FloatDecimal(sign, digits, exp, raises) ==
    [to |-> "decimal", sign |-> sign, digits |-> digits, exp |-> exp,
     raises |-> raises]

\* the most digits of a numeral, behind its leading zeros, and the most
\* digits behind its point
MAX_DIGITS == 1000000000

\* the text b behind the sign: inf, infinity, nan, or
\* digits [. digits] [e [sign] digits] with a digit before the exponent
\* and no more than MAX_DIGITS digits
ReadUnsigned(sign, b) ==
    LET word == AsciiLower(b)
        ni == DigitRun(b, 1)
        dot == CharAt(b, ni + 1) = 46
        nf == IF dot THEN DigitRun(b, ni + 2) ELSE 0
        p == ni + (IF dot THEN 1 + nf ELSE 0) + 1
        hasE == CharAt(b, p) \in {69, 101}
        eSigned == hasE /\ CharAt(b, p + 1) \in {43, 45}
        eSign == IF eSigned /\ b[p + 1] = 45 THEN -1 ELSE 1
        q == p + 1 + (IF eSigned THEN 1 ELSE 0)
        ne == IF hasE THEN DigitRun(b, q) ELSE 0
        end == IF hasE THEN q + ne ELSE p
        digits == [i \in 1..(ni + nf) |->
                      IF i <= ni THEN b[i] - 48 ELSE b[i + 1] - 48]
        exp == IF hasE
               THEN eSign * ExponentOf([i \in 1..ne |-> b[q + i - 1] - 48])
               ELSE 0
    IN IF word \in {Chars(<<"i", "n", "f">>),
                    Chars(<<"i", "n", "f", "i", "n", "i", "t", "y">>)}
       THEN FloatIs(PyInf(sign))
       ELSE IF word = Chars(<<"n", "a", "n">>) THEN FloatIs(PyNaN)
       ELSE IF \/ ni + nf = 0
               \/ Len(StripLeadingZeros(digits)) > MAX_DIGITS
               \/ nf > MAX_DIGITS
               \/ hasE /\ ne = 0
               \/ end # Len(b) + 1
       THEN FloatRaises("ValueError")
       ELSE FloatDecimal(sign, digits, exp - nf, FALSE)

\* the text s without underscores and white space around it: a sign and
\* the rest
ReadSigned(s) ==
    IF s # <<>> /\ s[1] \in {43, 45}
    THEN ReadUnsigned(IF s[1] = 45 THEN -1 ELSE 1, Tail(s))
    ELSE ReadUnsigned(1, s)

\* the text s0 in ASCII: an underscore stands between two digits
ReadAscii(s0) ==
    IF ~ UnderscoresOk(s0) THEN FloatRaises("ValueError")
    ELSE ReadSigned(CStrip(SelectSeq(s0, LAMBDA c : c # 95)))

\* float(s) of the text s, before rounding
FloatReadStr(text) == ReadAscii([i \in DOMAIN text |-> ToAscii(text[i])])

\* float(n) of an int, before rounding: a number past the largest double
\* is an OverflowError
FloatReadInt(n) == FloatDecimal(n.sign, n.digits, 0, TRUE)

\* float(x) before rounding
FloatRead(x) ==
    CASE x.kind = "float" -> FloatIs(x)
      [] x.kind = "int" -> FloatReadInt(x)
      [] x.kind = "bool" ->
            FloatIs(IF x.val THEN PyFloat(1, <<1>>, 0)
                    ELSE PyFloat(1, <<>>, 0))
      [] IsStr(x) -> FloatReadStr(Text(x))
      [] OTHER -> FloatRaises("TypeError")

FloatOfRead(r) ==
    IF r.to = "raise" THEN Raise(r.exc)
    ELSE IF r.to = "value" THEN Return(r.val)
    ELSE FloatOfDecimal(r.sign, r.digits, r.exp, r.raises)

\* float(x)
Float(x) == FloatOfRead(FloatRead(x))

\* repr(x) of a float: positional notation for an exponent from -4 to 15,
\* else scientific notation
FloatRepr(x) ==
    LET sg == IF x.sign < 0 THEN <<45>> ELSE <<>>
        d == DigitChars(x.digits)
        n == Len(d)
        X == x.exp10
        ax == IF X < 0 THEN - X ELSE X
    IN IF x.cls = "nan" THEN Chars(<<"n", "a", "n">>)
       ELSE IF x.cls = "inf" THEN sg \o Chars(<<"i", "n", "f">>)
       ELSE IF n = 0 THEN sg \o Chars(<<"0", ".", "0">>)
       ELSE IF -4 <= X /\ X < 16
       THEN IF X >= n - 1
            THEN sg \o d \o DigitChars(Zeros(X - n + 1)) \o Chars(<<".", "0">>)
            ELSE IF X >= 0
            THEN sg \o SubSeq(d, 1, X + 1) \o <<46>> \o SubSeq(d, X + 2, n)
            ELSE sg \o Chars(<<"0", ".">>) \o DigitChars(Zeros(- X - 1)) \o d
       ELSE sg \o <<d[1]>>
            \o (IF n > 1 THEN <<46>> \o SubSeq(d, 2, n) ELSE <<>>)
            \o <<101>> \o (IF X < 0 THEN <<45>> ELSE <<43>>)
            \o DigitChars(IF ax < 10 THEN Pad(ax, 2) ELSE DigitsOf(ax))

(***************************************************************************)
(* The calendar of datetime.                                               *)
(***************************************************************************)
IsLeap(y) == (y % 4 = 0) /\ ((y % 100 # 0) \/ (y % 400 = 0))
DaysInMonth(y, m) ==
    IF m = 2 THEN (IF IsLeap(y) THEN 29 ELSE 28)
    ELSE IF m \in {4, 6, 9, 11} THEN 30 ELSE 31
ValidDate(y, m, d) ==
    y >= 1 /\ y <= 9999 /\ m \in 1..12 /\ d >= 1 /\ d <= DaysInMonth(y, m)
ValidTime(H, M, S) == H \in 0..23 /\ M \in 0..59 /\ S \in 0..59

\* the days before January 1st of year y, before the first of month m, and
\* the ordinal of a date, day 1 being 0001-01-01
DaysBeforeYear(y) ==
    (y - 1) * 365 + ((y - 1) \div 4) - ((y - 1) \div 100) + ((y - 1) \div 400)
DaysBeforeMonthOf(y, m) ==
    SumRange([k \in 1..12 |-> DaysInMonth(y, k)], 1, m - 1)
YmdToOrd(y, m, d) == DaysBeforeYear(y) + DaysBeforeMonthOf(y, m) + d
Weekday(y, m, d) == (YmdToOrd(y, m, d) + 6) % 7
\* the date of an ordinal that falls in year y - 1, y or y + 1
OrdToYmd(ord, y) ==
    LET yy == CHOOSE c \in (y - 1)..(y + 1) :
                 DaysBeforeYear(c) < ord /\ ord <= DaysBeforeYear(c + 1)
        r == ord - DaysBeforeYear(yy)
        mm == CHOOSE c \in 1..12 :
                 /\ DaysBeforeMonthOf(yy, c) < r
                 /\ r <= DaysBeforeMonthOf(yy, c) + DaysInMonth(yy, c)
    IN [y |-> yy, m |-> mm, d |-> r - DaysBeforeMonthOf(yy, mm)]
\* the ordinal of the Monday of ISO week 1 of year y
IsoWeek1Monday(y) ==
    LET first_day == YmdToOrd(y, 1, 1)
        first_weekday == (first_day + 6) % 7
        week1_monday == first_day - first_weekday
    IN IF first_weekday > 3 THEN week1_monday + 7 ELSE week1_monday

\* datetime.combine(node, time()): the date of node at midnight, naive
Combine(node) == PyDateTime(node.y, node.m, node.d, 0, 0, 0, 0, None)

\* the text of the UTC offset of a timezone
OffsetFormat(tz) ==
    LET hh == tz.seconds \div 3600
        mm == (tz.seconds % 3600) \div 60
        ss == tz.seconds % 60
    IN (IF tz.sign < 0 THEN <<45>> ELSE <<43>>)
       \o DigitChars(Pad(hh, 2)) \o <<58>> \o DigitChars(Pad(mm, 2))
       \o (IF ss # 0 \/ tz.microseconds # 0
           THEN <<58>> \o DigitChars(Pad(ss, 2)) ELSE <<>>)
       \o (IF tz.microseconds # 0
           THEN <<46>> \o DigitChars(Pad(tz.microseconds, 6)) ELSE <<>>)

DateFormat(x) ==
    DigitChars(Pad(x.y, 4)) \o <<45>> \o DigitChars(Pad(x.m, 2)) \o <<45>>
    \o DigitChars(Pad(x.d, 2))

\* datetime.isoformat(sep)
IsoFormat(dt, sep) ==
    DateFormat(dt) \o <<sep>>
    \o DigitChars(Pad(dt.H, 2)) \o <<58>> \o DigitChars(Pad(dt.M, 2))
    \o <<58>> \o DigitChars(Pad(dt.S, 2))
    \o (IF dt.us # 0 THEN <<46>> \o DigitChars(Pad(dt.us, 6)) ELSE <<>>)
    \o (IF dt.tzinfo # None THEN OffsetFormat(dt.tzinfo) ELSE <<>>)

\* sys.get_int_max_str_digits(): the most digits of an int that str()
\* converts
int_max_str_digits == 4300

\* str(x): the text, or the ValueError of an int of too many digits
StrOf(x) ==
    CASE IsStr(x) -> Return(Text(x))
      [] x.kind = "int" ->
            IF Len(x.digits) > int_max_str_digits THEN Raise("ValueError")
            ELSE IF x.digits = <<>> THEN Return(<<48>>)
            ELSE Return((IF x.sign < 0 THEN <<45>> ELSE <<>>)
                        \o DigitChars(x.digits))
      [] x.kind = "float" -> Return(FloatRepr(x))
      [] x.kind = "bool" ->
            Return(IF x.val THEN Chars(<<"T", "r", "u", "e">>)
                   ELSE Chars(<<"F", "a", "l", "s", "e">>))
      [] x.kind = "None" -> Return(Chars(<<"N", "o", "n", "e">>))
      [] x.kind = "date" -> Return(DateFormat(x))
      [] x.kind = "datetime" -> Return(IsoFormat(x, 32))

(***************************************************************************)
(* datetime.fromisoformat(x), on the UTF-8 encoding of the text.           *)
(* Positions count from 0 and the byte past the end is 0.                  *)
(***************************************************************************)
Utf8Char(c) ==
    IF c < 128 THEN <<c>>
    ELSE IF c < 2048 THEN <<192 + (c \div 64), 128 + (c % 64)>>
    ELSE IF c < 65536
    THEN <<224 + (c \div 4096), 128 + ((c \div 64) % 64), 128 + (c % 64)>>
    ELSE <<240 + (c \div 262144), 128 + ((c \div 4096) % 64),
           128 + ((c \div 64) % 64), 128 + (c % 64)>>
Utf8(s) == Concat([i \in DOMAIN s |-> Utf8Char(s[i])])

IsSurrogate(c) == 55296 <= c /\ c <= 57343

At(s, p) == IF p >= 0 /\ p < Len(s) THEN s[p + 1] ELSE 0

\* parse_digits: n digits at p, and their value
HasDigits(s, p, n) == \A i \in 0..(n - 1) : IsAsciiDigit(At(s, p + i))
DigitsValue(s, p, n) == NatOf([i \in 1..n |-> At(s, p + i - 1) - 48])
\* the first position from p on that holds no digit
SkipDigits(s, p) ==
    LET stop == {i \in p..(Len(s) - 1) : ~ IsAsciiDigit(At(s, i))}
    IN IF stop = {} THEN (IF p > Len(s) THEN p ELSE Len(s)) ELSE Min(stop)

\* _find_isoformat_datetime_separator: the length of the date part, -1 when
\* there is none
find_isoformat_datetime_separator(s) ==
    LET len == Len(s)
        idx == SkipDigits(s, 7)
    IN IF len = 7 THEN 7
       ELSE IF At(s, 4) = 45
       THEN IF At(s, 5) = 87
            THEN IF len < 8 THEN -1
                 ELSE IF len > 8 /\ At(s, 8) = 45
                 THEN IF len = 9 THEN -1
                      ELSE IF len > 10 /\ IsAsciiDigit(At(s, 10)) THEN 8
                      ELSE 10
                 ELSE 8
            ELSE 10
       ELSE IF At(s, 4) = 87
       THEN IF idx < 9 THEN idx
            ELSE IF idx % 2 = 0 THEN 7 ELSE 8
       ELSE 8

NoDate == [ok |-> FALSE, y |-> 0, m |-> 0, d |-> 0]

\* iso_to_ymd: the date of a day of an ISO week
DateOf(date) == [ok |-> TRUE, y |-> date.y, m |-> date.m, d |-> date.d]
iso_to_ymd(iso_year, iso_week, iso_day) ==
    LET first_weekday == Weekday(iso_year, 1, 1)
        out_of_range ==
            /\ iso_week <= 0 \/ iso_week >= 53
            /\ ~ (/\ iso_week = 53
                  /\ \/ first_weekday = 3
                     \/ first_weekday = 2 /\ IsLeap(iso_year))
    IN IF out_of_range \/ iso_day <= 0 \/ iso_day >= 8 THEN NoDate
       ELSE DateOf(OrdToYmd(IsoWeek1Monday(iso_year) + (iso_week - 1) * 7
                            + iso_day - 1, iso_year))

\* parse_isoformat_date: the date in the first len bytes
parse_isoformat_date(s, len) ==
    LET uses_separator == At(s, 4) = 45
        p == IF uses_separator THEN 5 ELSE 4
        year == DigitsValue(s, 0, 4)
        \* week date
        w == p + 1
        afterWeek == w + 2
        dayPos == IF uses_separator THEN afterWeek + 1 ELSE afterWeek
        \* calendar date
        monthEnd == p + 2
        dp == IF uses_separator THEN monthEnd + 1 ELSE monthEnd
    IN IF ~ HasDigits(s, 0, 4) THEN NoDate
       ELSE IF At(s, p) = 87
       THEN IF ~ HasDigits(s, w, 2) THEN NoDate
            ELSE IF /\ afterWeek < len
                    /\ \/ uses_separator /\ At(s, afterWeek) # 45
                       \/ ~ HasDigits(s, dayPos, 1)
            THEN NoDate
            ELSE iso_to_ymd(year, DigitsValue(s, w, 2),
                            IF afterWeek < len THEN DigitsValue(s, dayPos, 1)
                            ELSE 1)
       ELSE IF ~ HasDigits(s, p, 2) THEN NoDate
       ELSE IF uses_separator /\ At(s, monthEnd) # 45 THEN NoDate
       ELSE IF ~ HasDigits(s, dp, 2) THEN NoDate
       ELSE [ok |-> TRUE, y |-> year, m |-> DigitsValue(s, p, 2),
             d |-> DigitsValue(s, dp, 2)]

HmsResult(rv, vals, us) ==
    [rv |-> rv, H |-> vals[1], M |-> vals[2], S |-> vals[3], us |-> us]

\* the fraction of a second from p on, up to six digits of it
parse_fraction(s, p, pend, vals) ==
    LET len_remains == pend - p
        to_parse == IF len_remains < 6 THEN len_remains ELSE 6
        p2 == SkipDigits(s, p + to_parse)
    IN IF ~ HasDigits(s, p, to_parse) THEN HmsResult(-3, vals, 0)
       ELSE HmsResult(IF At(s, p2) # 0 THEN 1 ELSE 0, vals,
                      DigitsValue(s, p, to_parse) * (10 ^ (6 - to_parse)))

\* parse_hh_mm_ss_ff: HH[:MM[:SS[.fff]]] or HH[MM[SS[.fff]]] between p and
\* pend; rv is negative for an error and 1 when more text follows
RECURSIVE parse_hh_mm_ss_ff_from(_, _, _, _, _, _)
parse_hh_mm_ss_ff_from(s, p, pend, i, has_separator, vals) ==
    IF i = 3 THEN parse_fraction(s, p, pend, vals)
    ELSE IF ~ HasDigits(s, p, 2) THEN HmsResult(-3, vals, 0)
    ELSE LET c == At(s, p + 2)
             p1 == p + 3
             sep == IF i = 0 THEN c = 58 ELSE has_separator
             vals1 == [vals EXCEPT ![i + 1] = DigitsValue(s, p, 2)]
         IN IF p1 >= pend THEN HmsResult(IF c # 0 THEN 1 ELSE 0, vals1, 0)
            ELSE IF sep /\ c = 58
            THEN parse_hh_mm_ss_ff_from(s, p1, pend, i + 1, sep, vals1)
            ELSE IF c = 46 \/ c = 44 THEN parse_fraction(s, p1, pend, vals1)
            ELSE IF ~ sep
            THEN parse_hh_mm_ss_ff_from(s, p1 - 1, pend, i + 1, sep, vals1)
            ELSE HmsResult(-4, vals1, 0)
parse_hh_mm_ss_ff(s, p, pend) ==
    parse_hh_mm_ss_ff_from(s, p, pend, 0, TRUE, <<0, 0, 0>>)

NoTime == [ok |-> FALSE, H |-> 0, M |-> 0, S |-> 0, us |-> 0, tzinfo |-> None]

\* parse_isoformat_time: the time and the UTC offset from p to the end;
\* t is the time read before tzinfo_pos, tz the offset read behind it
TimeOf(t, tzinfo) ==
    [ok |-> TRUE, H |-> t.H, M |-> t.M, S |-> t.S, us |-> t.us,
     tzinfo |-> tzinfo]
isoformat_time_of(s, tzinfo_pos, t, tz) ==
    LET len == Len(s)
        tzsign == IF At(s, tzinfo_pos) = 45 THEN -1 ELSE 1
        tzoffset == tz.H * 3600 + tz.M * 60 + tz.S
    IN IF t.rv < 0 THEN NoTime
       ELSE IF tzinfo_pos = len
       THEN IF t.rv = 1 THEN NoTime ELSE TimeOf(t, None)
       ELSE IF At(s, tzinfo_pos) = 90
       THEN IF At(s, tzinfo_pos + 1) # 0 THEN NoTime
            ELSE TimeOf(t, TimeZone(1, 0, 0))
       ELSE IF tz.rv # 0 THEN NoTime
       \* a zero offset is timezone.utc; an offset of a day or more is no
       \* timezone
       ELSE IF tzoffset = 0 THEN TimeOf(t, TimeZone(1, 0, 0))
       ELSE IF tzoffset >= 86400 THEN NoTime
       ELSE TimeOf(t, TimeZone(tzsign, tzoffset, tz.us))
isoformat_time_at(s, p, tzinfo_pos) ==
    isoformat_time_of(s, tzinfo_pos, parse_hh_mm_ss_ff(s, p, tzinfo_pos),
                      parse_hh_mm_ss_ff(s, tzinfo_pos + 1, Len(s)))
parse_isoformat_time(s, p) ==
    LET len == Len(s)
        marks == {i \in p..(len - 1) : At(s, i) \in {90, 43, 45}}
    IN isoformat_time_at(s, p,
                         IF marks # {} THEN Min(marks)
                         ELSE IF p + 1 > len THEN p + 1 ELSE len)

\* the length in bytes of the character whose first byte is b
SeparatorLength(b) ==
    IF b < 128 THEN 1
    ELSE IF b \div 16 = 14 THEN 3
    ELSE IF b \div 16 = 15 THEN 4
    ELSE 2

\* datetime.fromisoformat(x): the datetime of a date and a time that were
\* read, when they are in range
datetime_of(date, time) ==
    IF ~ date.ok THEN Raise("ValueError")
    ELSE IF ~ time.ok THEN Raise("ValueError")
    ELSE IF ~ (/\ ValidDate(date.y, date.m, date.d)
               /\ ValidTime(time.H, time.M, time.S))
    THEN Raise("ValueError")
    ELSE Return(PyDateTime(date.y, date.m, date.d, time.H, time.M,
                           time.S, time.us, time.tzinfo))
\* the date in the first sep bytes of s and the time behind the separator
fromisoformat_at(s, sep) ==
    IF Len(s) < 7 \/ sep < 0 THEN Raise("ValueError")
    ELSE datetime_of(
            parse_isoformat_date(s, sep),
            IF Len(s) > sep
            THEN parse_isoformat_time(s, sep + SeparatorLength(At(s, sep)))
            ELSE [NoTime EXCEPT !.ok = TRUE])
fromisoformat_bytes(s) ==
    fromisoformat_at(s, find_isoformat_datetime_separator(s))
\* the text after the first surrogate where a separator can stand was
\* replaced: a surrogate that is left cannot be encoded
fromisoformat_text(clean) ==
    IF \E i \in DOMAIN clean : IsSurrogate(clean[i])
    THEN Raise("ValueError")
    ELSE fromisoformat_bytes(Utf8(clean))
FromIsoFormat(x) ==
    IF ~ IsStr(x) THEN Raise("TypeError")
    ELSE LET text == Text(x)
             \* the first surrogate where a separator can stand, after 7,
             \* 8 or 10 characters, reads as "T"
             seps == {i \in {8, 9, 11} \cap DOMAIN text :
                        IsSurrogate(text[i])}
         IN fromisoformat_text(
               [i \in DOMAIN text |->
                   IF seps # {} /\ i = Min(seps) THEN 84 ELSE text[i]])

(***************************************************************************)
(* mkgfd.multimodal: the datatype families, and mkgfd.timeutils: the       *)
(* fragment-to-days routine.                                               *)
(***************************************************************************)
XSD_NUMERIC == {XSD_integer, XSD_double}
XSD_DATETIME == {XSD_date, XSD_dateTime}
XSD_DATEFRAG == {XSD_gMonthDay}
XSD_STRING == {XSD_string}

DaysBeforeMonth(m) == DaysBeforeMonthOf(1, m)

\* gFrag_to_days(gFrag, dtype): the day offset of a "--MM-DD" fragment; a
\* fragment that does not convert fails with ValueError
gFrag_to_days(gFrag, dtype) ==
    IF /\ Len(gFrag) = 7
       /\ gFrag[1] = 45 /\ gFrag[2] = 45 /\ gFrag[5] = 45
       /\ HasDigits(gFrag, 2, 2) /\ HasDigits(gFrag, 5, 2)
       /\ ValidDate(1, DigitsValue(gFrag, 2, 2), DigitsValue(gFrag, 5, 2))
    THEN Return(IntOf(DaysBeforeMonth(DigitsValue(gFrag, 2, 2))
                      + DigitsValue(gFrag, 5, 2)))
    ELSE Raise("ValueError")

(***************************************************************************)
(* cast_xsd                                                                *)
(***************************************************************************)
\* the rdflib nodes have a toPython method, other Python values have none
HasToPython(node) == node.kind \in {"Literal", "URIRef", "BNode"}

\* Literal.toPython(): the parsed value, or the literal itself when there
\* is none; URIRef.toPython() and BNode.toPython(): str(self)
ToPython(node) ==
    IF node.kind = "Literal"
    THEN (IF node.value # None THEN node.value ELSE node)
    ELSE PyStr(node.id)

\* try: <outcome> except ValueError: pass -- with `node` bound to `kept`
\* when the exception is raised
TryExceptValueError(outcome, kept) ==
    IF outcome.exc = "ValueError" THEN Return(kept) ELSE outcome

\* gFrag_to_days(str(node), dtype) and str(node).strip().lower(), s being
\* the outcome of str(node)
DateFragOfStr(s, dtype) ==
    IF s.exc = "None" THEN gFrag_to_days(s.val, dtype) ELSE s
StripLowerOfStr(s) ==
    IF s.exc = "None" THEN Return(PyStr(Lower(Strip(s.val)))) ELSE s

\* the four branches, on the value toPython returned
CastPython(node, dtype) ==
    IF dtype \in XSD_NUMERIC
    THEN TryExceptValueError(Float(node), node)
    ELSE IF dtype \in XSD_DATETIME
    THEN LET node1 == IF node.kind \in {"date", "datetime"}
                      THEN PyStr(IsoFormat(Combine(node), 84))
                      ELSE node
         IN TryExceptValueError(FromIsoFormat(node1), node1)
    ELSE IF dtype \in XSD_DATEFRAG
    THEN TryExceptValueError(DateFragOfStr(StrOf(node), dtype), node)
    ELSE IF dtype \in XSD_STRING
    THEN TryExceptValueError(StripLowerOfStr(StrOf(node)), node)
    ELSE Return(node)

cast_xsd(node, dtype) ==
    IF ~ HasToPython(node)
    THEN Raise("AttributeError")
    ELSE CastPython(ToPython(node), dtype)

(***************************************************************************)
(* Casting a node, and casting the result once more.                       *)
(***************************************************************************)
\* a literal without datatype: its value is its text
PlainLiteral(lex) == Literal(lex, None, None, PyStr(lex))

CastNodes ==
    {Lit12, LitHiEn, LitPlain, EntA, NodeN,
     Literal(Chars(<<"a", "b", "c">>), XSD_integer, None, None),
     Literal(Chars(<<"-", "1", "2">>), XSD_integer, None, IntOf(-12)),
     Literal(Chars(<<" ", "1", "2", " ">>), XSD_string, None,
             PyStr(Chars(<<" ", "1", "2", " ">>))),
     \* the integers 10^400 and 2 * 10^308, past the largest float
     Literal(<<49>> \o DigitChars(Zeros(400)), XSD_integer, None,
             PyInt(1, <<1>> \o Zeros(400))),
     Literal(<<50>> \o DigitChars(Zeros(308)), XSD_integer, None,
             PyInt(1, <<2>> \o Zeros(308))),
     \* an integer of one digit more than str() converts
     Literal(<<49>> \o DigitChars(Zeros(int_max_str_digits)), XSD_integer,
             None, PyInt(1, <<1>> \o Zeros(int_max_str_digits))),
     Literal(Chars(<<"1", "2">>), XSD_double, None, PyFloat(1, <<1, 2>>, 1)),
     Literal(Chars(<<" ", "A", "b", "C", " ">>), XSD_string, None,
             PyStr(Chars(<<" ", "A", "b", "C", " ">>))),
     \* "\tÉΣ\n": a tab, E acute, capital sigma, a line feed
     Literal(<<9, 201, 931, 10>>, XSD_string, None, PyStr(<<9, 201, 931, 10>>)),
     Literal(Chars(<<"2", "0", "2", "0", "-", "0", "1", "-", "0", "5">>),
             XSD_date, None, PyDate(2020, 1, 5)),
     Literal(Chars(<<"2", "0", "2", "0", "-", "1", "3", "-", "0", "5">>),
             XSD_date, None, None),
     Literal(Chars(<<"2", "0", "2", "0", "-", "0", "1", "-", "0", "5", "T",
                     "1", "0", ":", "3", "0", ":", "0", "0">>), XSD_dateTime,
             None, PyDateTime(2020, 1, 5, 10, 30, 0, 0, None)),
     PlainLiteral(Chars(<<"2", "0", "2", "0", "-", "0", "1", "-", "0", "5">>)),
     PlainLiteral(Chars(<<"2", "0", "2", "0", "-", "W", "0", "1", "-", "1">>)),
     PlainLiteral(Chars(<<"2", "0", "2", "0", "0", "1", "0", "5", "T", "1",
                          "0", ":", "3", "0", ":", "0", "0", ".", "5", "+",
                          "0", "1", ":", "0", "0">>)),
     PlainLiteral(Chars(<<"-", "1", ".", "5", "e", "-", "7">>)),
     PlainLiteral(Chars(<<"0", ".", "1", "2", "3", "4", "5", "6", "7", "8",
                          "9", "0", "1", "2", "3", "4", "5", "6", "7", "8",
                          "9">>)),
     PlainLiteral(<<9>> \o Chars(<<"1", "_", "0">>) \o <<10>>),
     PlainLiteral(Chars(<<"i", "n", "f">>)),
     Literal(Chars(<<"-", "-", "0", "5", "-", "2", "0">>), XSD_gMonthDay,
             None, None),
     Literal(Chars(<<"-", "-", "1", "3", "-", "2", "0">>), XSD_gMonthDay,
             None, None),
     Literal(Chars(<<"t", "r", "u", "e">>), XSD_boolean, None, PyBool(TRUE))}

CastDatatypes ==
    {XSD_integer, XSD_double, XSD_date, XSD_dateTime, XSD_gMonthDay,
     XSD_string, XSD_boolean, XSD_anyType}

InitCast ==
    /\ pc = "cast_xsd"
    /\ args \in {<<node, dtype>> : node \in CastNodes, dtype \in CastDatatypes}
    /\ ret = None
    /\ ret2 = None
    /\ g = {}
    /\ todo = {}
    /\ data_type_map = data_type_map_new
    /\ object_type_map = object_type_map_new
    /\ predicate_map = PlainDict
    /\ dd = None

\* cast_xsd(v, d)
call_cast_xsd ==
    /\ pc = "cast_xsd"
    /\ ret' = cast_xsd(args[1], args[2])
    /\ pc' = "cast_once"
    /\ UNCHANGED <<g, todo, data_type_map, object_type_map, predicate_map,
                   dd, args, ret2>>

\* cast_xsd(cast_xsd(v, d), d)
call_cast_xsd_again ==
    /\ pc = "cast_once"
    /\ ret.exc = "None"
    /\ ret2' = cast_xsd(ret.val, args[2])
    /\ pc' = "cast_twice"
    /\ UNCHANGED <<g, todo, data_type_map, object_type_map, predicate_map,
                   dd, args, ret>>

NextCast == call_cast_xsd \/ call_cast_xsd_again

SpecCast == InitCast /\ [][NextCast]_vars

(***************************************************************************)
(* A DictDefault under stores and lookups.                                 *)
(***************************************************************************)
DictDefaults == {PyStr(<<>>), None, PySet({})}
DictKeys == {EntA, EntB, Lit12}
DictValues == {PyStr(Chars(<<"x">>)), XSD_integer, PySet({EntA})}

InitDict ==
    /\ pc = "DictDefault"
    /\ dd \in {DictDefault(default) : default \in DictDefaults}
    /\ args = NoCall
    /\ ret = None
    /\ ret2 = None
    /\ g = {}
    /\ todo = {}
    /\ data_type_map = data_type_map_new
    /\ object_type_map = object_type_map_new
    /\ predicate_map = PlainDict

\* dd[key] = value
dict_setitem ==
    /\ pc = "DictDefault"
    /\ \E key \in DictKeys, value \in DictValues :
          /\ dd' = DictSetItem(dd, key, value)
          /\ args' = <<"setitem", key, value>>
    /\ ret' = None
    /\ UNCHANGED <<pc, g, todo, data_type_map, object_type_map, predicate_map,
                   ret2>>

\* dd[key]
dict_getitem ==
    /\ pc = "DictDefault"
    /\ \E key \in DictKeys :
          LET got == DictGetItem(dd, key)
          IN /\ dd' = got.self
             /\ ret' = Return(got.ret)
             /\ args' = <<"getitem", key>>
    /\ UNCHANGED <<pc, g, todo, data_type_map, object_type_map, predicate_map,
                   ret2>>

NextDict == dict_setitem \/ dict_getitem

SpecDict == InitDict /\ [][NextDict]_vars

(***************************************************************************)
(* Properties.                                                             *)
(***************************************************************************)
LiteralObjects(graph) == {t.o : t \in {u \in graph : u.o.kind = "Literal"}}
SubjectEntities(graph) == {t.s : t \in {u \in graph : u.s.kind = "URIRef"}}

\* the datatype of a literal: its tag, else string when it carries a
\* language, else the any-type marker
DatatypeOf(L) ==
    IF L.datatype # None THEN L.datatype
    ELSE IF L.language # None THEN XSD_string ELSE XSD_anyType

\* the classes of an entity: the asserted ones, else the generic class
ClassesOf(graph, E) ==
    IF Objects(graph, E, RDF_type) = {} THEN {RDFS_Class}
    ELSE Objects(graph, E, RDF_type)

AfterDataTypeMap ==
    pc \in {"generate_object_type_map", "generate_predicate_map", "built",
            "predicate_frequency"}
AfterObjectTypeMap ==
    pc \in {"generate_predicate_map", "built", "predicate_frequency"}
AfterPredicateMap == pc \in {"built", "predicate_frequency"}

\* C1: after generate_data_type_map has scanned the graph, every literal L
\* that occurred as an object, with datatype D, has object-to-type[L] = D,
\* is a member of type-to-object[D], and is in no other datatype's bucket.
C1_DataTypeMapConsistent ==
    AfterDataTypeMap =>
        \A L \in LiteralObjects(g) :
            LET D == DatatypeOf(L)
            IN /\ DictGetItem(data_type_map.object_to_type, L).ret = D
               /\ L \in DictGetItem(data_type_map.type_to_object, D).ret.elems
               /\ \A D2 \in Keys(data_type_map.type_to_object) \ {D} :
                     L \notin data_type_map.type_to_object.store[D2].elems

\* C2: predicate_frequency returns a count that never exceeds |domain|, and
\* returns 0 (a value, not an error) when the predicate has no entry in the
\* predicate index.
C2_FrequencyBounded ==
    pc = "predicate_frequency" =>
        /\ ret.exc = "None"
        /\ ret.val.kind = "int"
        /\ ret.val.sign = 1
        /\ NatOf(ret.val.digits) <= Cardinality(args[2])
        /\ (args[1].predicate \notin DOMAIN predicate_map => ret.val = IntOf(0))

\* the entities of a graph: its subjects that are not literals, and the
\* non-literal objects of its triples other than class assertions
Entities(graph) ==
    {t.s : t \in {u \in graph : u.s.kind # "Literal"}}
    \cup {t.o : t \in {u \in graph : u.o.kind # "Literal" /\ u.p # RDF_type}}

\* C3: after generate_object_type_map has scanned the graph, every entity
\* without asserted class maps to exactly the generic class, and every
\* entity with asserted classes C1..Cn maps to {C1..Cn} and is a member of
\* each Ci's bucket.
C3_EveryEntityTyped ==
    AfterObjectTypeMap =>
        \A E \in Entities(g) :
            LET asserted == Objects(g, E, RDF_type)
                types == DictGetItem(object_type_map.object_to_type, E).ret
            IN IF asserted = {}
               THEN types = PySet({RDFS_Class})
               ELSE /\ types = PySet(asserted)
                    /\ \A C \in asserted :
                          E \in DictGetItem(object_type_map.type_to_object,
                                            C).ret.elems

\* C3 (amended): after generate_object_type_map has scanned the graph, every
\* URIRef that occurs as a subject maps to exactly the generic class when it
\* has no asserted class, and to {C1..Cn}, being a member of each Ci's
\* bucket, when it has the asserted classes C1..Cn; every other resource is
\* no key of the index and its lookup gives the empty default.
C3_ObjectTypeMapConsistent ==
    AfterObjectTypeMap =>
        /\ \A E \in SubjectEntities(g) :
              LET asserted == Objects(g, E, RDF_type)
                  types == DictGetItem(object_type_map.object_to_type, E).ret
              IN IF asserted = {}
                 THEN types = PySet({RDFS_Class})
                 ELSE /\ types = PySet(asserted)
                      /\ \A C \in asserted :
                            E \in DictGetItem(object_type_map.type_to_object,
                                              C).ret.elems
        /\ \A E \in Entities(g) \ SubjectEntities(g) :
              /\ E \notin Keys(object_type_map.object_to_type)
              /\ DictGetItem(object_type_map.object_to_type, E).ret = PySet({})

\* an entity with two asserted classes and an entity with none were scanned
C3_Witness ==
    /\ pc = "built"
    /\ \E E \in SubjectEntities(g), E2 \in SubjectEntities(g) :
          /\ Objects(g, E, RDF_type) = {Person, Student}
          /\ Objects(g, E2, RDF_type) = {}
          /\ object_type_map.object_to_type.store[E] = PySet({Person, Student})
          /\ object_type_map.object_to_type.store[E2] = PySet({RDFS_Class})

\* C4: after generate_predicate_map has scanned the graph, every triple
\* (s,p,o) has o in forwards[p][s] and s in backwards[p][o], and every pair
\* recorded in forwards or backwards is a scanned triple.
C4_PredicateMapConsistent ==
    AfterPredicateMap =>
        /\ \A t \in g :
              /\ t.p \in DOMAIN predicate_map
              /\ t.o \in DictGetItem(predicate_map[t.p].forwards, t.s).ret.elems
              /\ t.s \in DictGetItem(predicate_map[t.p].backwards, t.o).ret.elems
        /\ \A p \in DOMAIN predicate_map :
              /\ \A s \in Keys(predicate_map[p].forwards) :
                    \A o \in predicate_map[p].forwards.store[s].elems :
                        Triple(s, p, o) \in g
              /\ \A o \in Keys(predicate_map[p].backwards) :
                    \A s \in predicate_map[p].backwards.store[o].elems :
                        Triple(s, p, o) \in g

\* triples sharing a subject, and triples sharing an object, under one
\* predicate were scanned
C4_Witness ==
    /\ pc = "built"
    /\ \E t1 \in g, t2 \in g, t3 \in g :
          /\ t1.p = t2.p /\ t1.s = t2.s /\ t1.o # t2.o
          /\ t3.p = t2.p /\ t3.o = t2.o /\ t3.s # t2.s
          /\ predicate_map[t1.p].forwards.store[t1.s].elems = {t1.o, t2.o}
          /\ predicate_map[t2.p].backwards.store[t2.o].elems = {t2.s, t3.s}

IsConcrete(x) == x.kind \notin TypeVariableKinds

\* C5: isEquivalent is false unless both left-hand sides are
\* ObjectTypeVariables of identical type and the predicates are identical;
\* past that gate it is true iff the right-hand sides are the same concrete
\* resource, or are TypeVariables of identical type, or isSameType holds in
\* one of the two directions.
C5_IsEquivalentDecision ==
    pc = "isEquivalent" =>
        LET A == args[1]
            B == args[2]
            cache == Cache(object_type_map, data_type_map)
            gate == /\ A.lhs.kind = "ObjectTypeVariable"
                    /\ B.lhs.kind = "ObjectTypeVariable"
                    /\ A.lhs.type = B.lhs.type
                    /\ A.predicate = B.predicate
            same == /\ IsConcrete(A.rhs) /\ IsConcrete(B.rhs)
                    /\ A.rhs = B.rhs
            vars2 == /\ ~ IsConcrete(A.rhs) /\ ~ IsConcrete(B.rhs)
                     /\ A.rhs.type = B.rhs.type
        IN ret = Return(PyBool(
                    /\ gate
                    /\ \/ same
                       \/ vars2
                       \/ isSameType(A.rhs, B.rhs, cache)
                       \/ isSameType(B.rhs, A.rhs, cache)))

\* two assertions pass the gate and are equivalent only through the second
\* direction of isSameType
C5_Witness ==
    /\ pc = "isEquivalent"
    /\ args[1].lhs = ObjectTypeVariable(Person)
    /\ args[2].lhs = ObjectTypeVariable(Person)
    /\ args[1].predicate = args[2].predicate
    /\ args[1].rhs = EntA
    /\ args[2].rhs = ObjectTypeVariable(Person)
    /\ Person \in Objects(g, EntA, RDF_type)
    /\ ret = Return(PyBool(TRUE))

\* C6: isSameType(A, B) is true iff A is an ObjectTypeVariable, B an entity
\* that is a key of the entity-type index and A.type is among B's recorded
\* classes, or A is a DataTypeVariable or MultiModalNode, B a literal that is
\* a key of the literal-datatype index and its recorded datatype equals
\* A.type.  In particular ?x:Person matches an entity typed Student and
\* Person, does not match an untyped entity that got the generic class only,
\* and the result is false when A is a concrete resource.
C6_IsSameTypeDecision ==
    pc = "isSameType" =>
        LET A == args[1]
            B == args[2]
            ott == object_type_map.object_to_type
            dtt == data_type_map.object_to_type
            entityCase == /\ A.kind = "ObjectTypeVariable"
                          /\ B.kind = "URIRef"
                          /\ B \in Keys(ott)
                          /\ A.type \in ott.store[B].elems
            literalCase == /\ A.kind \in {"DataTypeVariable", "MultiModalNode"}
                           /\ B.kind = "Literal"
                           /\ B \in Keys(dtt)
                           /\ dtt.store[B] = A.type
        IN /\ ret = Return(PyBool(entityCase \/ literalCase))
           /\ (/\ A = ObjectTypeVariable(Person)
               /\ {Student, Person} \subseteq Objects(g, B, RDF_type))
                 => ret.val.val
           /\ (/\ A = ObjectTypeVariable(Person)
               /\ B \in SubjectEntities(g)
               /\ Objects(g, B, RDF_type) = {})
                 => (~ ret.val.val /\ ott.store[B] = PySet({RDFS_Class}))
           /\ IsConcrete(A) => ~ ret.val.val

\* ?x:Person was compared with an entity typed Student and Person, next to
\* an untyped scanned entity
C6_Witness ==
    /\ pc = "isSameType"
    /\ args[1] = ObjectTypeVariable(Person)
    /\ args[2] = EntA
    /\ Objects(g, EntA, RDF_type) = {Student, Person}
    /\ EntB \in SubjectEntities(g) /\ Objects(g, EntB, RDF_type) = {}
    /\ ret = Return(PyBool(TRUE))

\* the conversion cast_xsd selects for a datatype, on the Python value
FamilyConversion(v, dtype) ==
    IF dtype \in XSD_NUMERIC THEN Float(v)
    ELSE IF dtype \in XSD_DATETIME
    THEN FromIsoFormat(IF v.kind \in {"date", "datetime"}
                       THEN PyStr(IsoFormat(Combine(v), 84)) ELSE v)
    ELSE IF dtype \in XSD_DATEFRAG THEN DateFragOfStr(StrOf(v), dtype)
    ELSE IF dtype \in XSD_STRING THEN StripLowerOfStr(StrOf(v))
    ELSE Return(v)

\* C7: cast_xsd always returns a value and lets no exception escape: when
\* the conversion of the selected family fails, for any kind of failure, the
\* original unconverted value is returned, and a datatype outside the four
\* families returns the value unchanged.
C7_NoExceptionEscapes ==
    pc \in {"cast_once", "cast_twice"} =>
        LET original == ToPython(args[1])
        IN /\ ret.exc = "None"
           /\ FamilyConversion(original, args[2]).exc # "None"
                => ret.val = original
           /\ args[2] \notin (XSD_NUMERIC \cup XSD_DATETIME \cup XSD_DATEFRAG
                              \cup XSD_STRING)
                => ret.val = original

\* C8: cast_xsd is idempotent: applying it to the result of cast_xsd(v, d)
\* with the same d succeeds and yields the same result as applying it once.
C8_Idempotent ==
    pc = "cast_twice" => (ret2.exc = "None" /\ ret2.val = ret.val)

\* C9: a lookup in a DictDefault returns the stored value of a stored key
\* and the construction default of a key never stored, and changes neither
\* the set of stored keys nor the default.
C9_LookupReadsOnly ==
    [][(pc = "DictDefault" /\ args'[1] = "getitem") =>
          /\ ret' = Return(IF args'[2] \in Keys(dd) THEN dd.store[args'[2]]
                             ELSE dd.default)
          /\ ret'.exc = "None"
          /\ Keys(dd') = Keys(dd)
          /\ dd'.default = dd.default
          /\ dd'.default \in DictDefaults]_vars

\* after stores, a key never stored was looked up and gave the default
C9_Witness ==
    /\ pc = "DictDefault"
    /\ args # NoCall
    /\ args[1] = "getitem"
    /\ Keys(dd) = {EntA, Lit12}
    /\ args[2] = EntB
    /\ ret = Return(dd.default)
    /\ dd.default = PySet({})

\* C10: for a fixed set of triples the three builders end with the same
\* index whatever the order of the scan: the index of the whole set, which
\* is the union of the indices of its triples.
C10_ScanOrderIndependent ==
    pc = "built" =>
        /\ Keys(data_type_map.object_to_type) = LiteralObjects(g)
        /\ \A L \in LiteralObjects(g) :
              data_type_map.object_to_type.store[L] = DatatypeOf(L)
        /\ Keys(data_type_map.type_to_object)
              = {DatatypeOf(L) : L \in LiteralObjects(g)}
        /\ \A D \in Keys(data_type_map.type_to_object) :
              data_type_map.type_to_object.store[D]
                 = PySet({L \in LiteralObjects(g) : DatatypeOf(L) = D})
        /\ Keys(object_type_map.object_to_type) = SubjectEntities(g)
        /\ \A E \in SubjectEntities(g) :
              object_type_map.object_to_type.store[E] = PySet(ClassesOf(g, E))
        /\ Keys(object_type_map.type_to_object)
              = UNION {ClassesOf(g, E) : E \in SubjectEntities(g)}
        /\ \A C \in Keys(object_type_map.type_to_object) :
              object_type_map.type_to_object.store[C]
                 = PySet({E \in SubjectEntities(g) : C \in ClassesOf(g, E)})
        /\ DOMAIN predicate_map = {t.p : t \in g}
        /\ \A p \in DOMAIN predicate_map :
              /\ Keys(predicate_map[p].forwards)
                    = {t.s : t \in {u \in g : u.p = p}}
              /\ \A s \in Keys(predicate_map[p].forwards) :
                    predicate_map[p].forwards.store[s] = PySet(Objects(g, s, p))
              /\ Keys(predicate_map[p].backwards)
                    = {t.o : t \in {u \in g : u.p = p}}
              /\ \A o \in Keys(predicate_map[p].backwards) :
                    predicate_map[p].backwards.store[o]
                       = PySet({t.s : t \in {u \in g : u.p = p /\ u.o = o}})

====
